---------------------------- MODULE Spec2Model ----------------------------
(***************************************************************************)
(* A model of the Flow language core (christianparpart/flow):              *)
(*   - lang::Interpreter (compile / run) driving a vm::Runner,             *)
(*   - the IR use-def and successor bookkeeping of flow::Instr,            *)
(*   - the constant pool of flow::IRProgram,                               *)
(*   - flow::PassManager,                                                  *)
(*   - lang::IRGenerator (block structure and handler inlining).           *)
(* Every subsystem has its own variables and its own specification; a      *)
(* specification keeps the variables of the other subsystems fixed.        *)
(***************************************************************************)
EXTENDS Integers, Sequences, FiniteSets, TLC

VARIABLES
  \* ---- lang::Interpreter and the vm::Runner it drives
  programIR_,    \* Interpreter::programIR_ : the IR program (the unit it was generated from), or null
  program_,      \* Interpreter::program_   : the linked Program, or null
  initialized_,  \* Interpreter::initialized_
  pc,            \* position of the host inside Interpreter::run: "idle" | "init" | "handler"
  runner,        \* the Runner that Interpreter::run currently drives
  call,          \* arguments of the Interpreter::run call in progress
  retval,        \* value returned by the last finished compile / run call
  lastCompile,   \* what the last compile call did (stages executed, report)
  initExec,      \* Runners created for @__global_init__ since the last successful compile
  runCalls,      \* run calls started since the last successful compile
  dispatched,    \* VM instructions dispatched by the run call in progress (all Runners)
  \* ---- flow::Instr / flow::Value / flow::BasicBlock
  live,          \* the instructions that are constructed and not destroyed
  operands,      \* Instr::operands_ of every instruction
  parent,        \* Instr::basicBlock_ of every instruction (None: in no block)
  uses,          \* Value::uses_ of every value: user |-> number of entries
  succs,         \* BasicBlock::successors_: block |-> (successor |-> number of entries)
  preds,         \* BasicBlock::predecessors_
  lastOp,        \* whether the last IR operation was a setOperand on a shared slot (see SetOperandKind)
  \* ---- flow::IRProgram constant pool
  tables,        \* table kind |-> sequence of interned literals
  lastGet,       \* the last IRProgram::get call: kind, literal, returned index, table before
  \* ---- flow::PassManager
  handlerPasses_,\* PassManager::handlerPasses_ : registered passes, in order
  pmpc,          \* position inside PassManager::run(IRHandler*)
  pmIt,          \* index of the next pass of the running round
  changes,       \* the local `changes` of the running round
  budget,        \* how many more times a pass may still report a change
  pmLog,         \* the pass executions of the run so far: <<pass, changed>>
  \* ---- lang::IRGenerator
  unit,          \* the parsed unit handed to IRGenerator::generate
  symIdx,        \* index of the next unit-scope symbol accept(UnitSym&) visits
  irHandlers,    \* IRProgram::handlers_ built so far: name |-> blocks
  genLog,        \* per generated top-level handler: what codegenInline did
  \* ---- lang::Parser
  source,        \* the source text handed to the parser, as its lexemes in order
  features_,     \* Parser::features_
  parser,        \* the parser: next lexeme, report, nodes built, global scope
  unitSyms,      \* the symbols Parser::unit has appended to the unit scope
  ppc,           \* position inside Parser::unit: "decls" | "done"
  \* ---- util::Cidr
  cidr,          \* the Cidr contains is called on: family, address bytes, prefix
  ipaddr,        \* the IPAddress argument: family, address bytes
  littleEndian,  \* byte order of the host the interpreter is built for
  contained,     \* what Cidr::contains returned; "none" before the call
  \* ---- lang::Lexer
  lexCase,       \* how the input was written: the literal it starts with
  input,         \* the characters of the stream the lexer reads
  lexer,         \* the lexer: position, token_, stringValue_, numberValue_, ...
  tokens,        \* what each call of Lexer::nextToken returned, in order
  lpc,           \* "lexing" | "eof" | "trapped"
  \* ---- Parser::resolve
  callables,     \* the overloads a call names, each with how the arguments match it
  resolved,      \* what Parser::resolve returned and reported; NullPtr before
  \* ---- vm::Handler
  hinput,        \* the instructions Handler::setCode was called with
  code_,         \* Handler::code_
  hpc,           \* "new" | "set" | "crashed"
  \* ---- Runners sharing one Handler
  build,         \* dispatch mode the VM is built with: "switch" | "direct"
  shared,        \* the linked Handler: code_ and directThreadedCode_
  runners,       \* per Runner: where it is, and its own state
  \* ---- lang::Interpreter: run calls and what they do
  host,          \* the Interpreter: program_, initialized_, globals_, compiles so far
  runLog,        \* per finished run call: its inputs, its result, its native calls
  \* ---- diagnostics::BufferedReport and fltest's Tester::testFile
  actual,        \* messages_ of the report the compilation filled
  expected,      \* messages_ of the report parsed from the test file
  tested,        \* what testFile returned and reported, once it ran
  \* ---- operators: the parser's opcode tables and the IR generator's
  opExpr,        \* the operator expression last parsed: input, AST, report
  generated      \* what IRGenerator::accept made of that AST

interpVars == <<programIR_, program_, initialized_, pc, runner, call, retval,
                lastCompile, initExec, runCalls, dispatched>>
irVars     == <<live, operands, parent, uses, succs, preds, lastOp>>
poolVars   == <<tables, lastGet>>
pmVars     == <<handlerPasses_, pmpc, pmIt, changes, budget, pmLog>>
genVars    == <<unit, symIdx, irHandlers, genLog>>
parseVars  == <<source, features_, parser, unitSyms, ppc>>
cidrVars   == <<cidr, ipaddr, littleEndian, contained>>
lexVars    == <<lexCase, input, lexer, tokens, lpc>>
resolveVars == <<callables, resolved>>
handlerVars == <<hinput, code_, hpc>>
threadVars == <<build, shared, runners>>
runVars    == <<host, runLog>>
reportVars == <<actual, expected, tested>>
opVars     == <<opExpr, generated>>
restVars   == <<handlerVars, threadVars, runVars, reportVars, opVars>>
frontVars  == <<parseVars, cidrVars, lexVars, resolveVars, restVars>>
vars       == <<interpVars, irVars, poolVars, pmVars, genVars, frontVars>>

None == "None"

\* An owning pointer (std::unique_ptr) or an optional value: empty, or one value.
NullPtr == <<>>
Ptr(x) == <<x>>
Deref(p) == p[1]
\* The element of a one-element set.  The({ e : x \in {v} }) is e with x
\* standing for the value of v, which is computed once.
The(S) == CHOOSE r \in S : TRUE

(***************************************************************************)
(* Bounds of the model.                                                    *)
(***************************************************************************)
MaxQuota    == 3   \* finite quotas handed to Interpreter::run are 1..MaxQuota
MaxDispatch == 5   \* a run call is followed for at most this many dispatches
MaxCalls    == 2   \* run calls followed after one successful compile
MaxOps      == 2   \* operand slots of an instruction
MaxGets     == 4   \* IRProgram::get calls followed
MaxPasses   == 2   \* passes registered with a PassManager
MaxChanges  == 2   \* times the passes of one PassManager report a change
MaxGlobals  == 2   \* unit-scope variable declarations of a unit
MaxStmts    == 2   \* statements in the body of the parsed handler main
MaxDecls    == 3   \* declarations and stray tokens of a parsed unit
MaxBody     == 3   \* pieces (characters, escapes) in the body of a string literal
MaxDigits   == 20  \* digits of a number literal or of a CIDR prefix
MaxCallables == 3  \* overloads of one builtin name
MaxCode     == 4   \* instructions handed to Handler::setCode
MaxCompiles == 2   \* compile calls on one Interpreter
MaxRuns     == 3   \* run calls on one Interpreter
MaxMessages == 2   \* messages of one BufferedReport

(***************************************************************************)
(*                       vm::Handler, vm::Runner                           *)
(***************************************************************************)
\* An Instruction is an opcode with one immediate.  NOP stands for every
\* instruction that falls through, JMP for a branch to an absolute index.
makeInstruction(opc, a) == [op |-> opc, a |-> a]
opcode(instr) == instr.op

NOP   == makeInstruction("NOP", 0)
JMP1  == makeInstruction("JMP", 1)
EXIT0 == makeInstruction("EXIT", 0)
EXIT1 == makeInstruction("EXIT", 1)

\* Handler::setCode: an EXIT is appended unless the code already ends in one.
setCode(code) ==
  IF opcode(code[Len(code)]) # "EXIT"
    THEN Append(code, makeInstruction("EXIT", 0))
    ELSE code

NoQuota == -1

\* Runner{handler, userdata, globals, quota, trace}
NewRunner(name, code, quota) ==
  [name |-> name, code |-> code, ip |-> 1, quota |-> quota, quota0 |-> quota,
   count |-> 0, state |-> "Running", result |-> FALSE]

IdleRunner ==
  [name |-> None, code |-> <<>>, ip |-> 1, quota |-> NoQuota, quota0 |-> NoQuota,
   count |-> 0, state |-> "Inactive", result |-> FALSE]

\* One dispatch step of Runner::run.  The step is counted and, under a finite
\* quota, decrements it; a quota that reaches zero aborts the run.
Execute(r) ==
  LET i == r.code[r.ip] IN
  CASE opcode(i) = "EXIT" -> [r EXCEPT !.state = "Exited", !.result = (i.a = 1)]
    [] opcode(i) = "JMP"  -> [r EXCEPT !.ip = i.a]
    [] OTHER              -> [r EXCEPT !.ip = r.ip + 1]

RunnerStep(r) ==
  LET c == [r EXCEPT !.count = r.count + 1] IN
  IF r.quota = NoQuota THEN Execute(c)
  ELSE LET d == [c EXCEPT !.quota = r.quota - 1] IN
       IF d.quota = 0
         THEN [d EXCEPT !.state = "QuotaExceeded", !.result = FALSE]
         ELSE Execute(d)

(***************************************************************************)
(*                          lang::Interpreter                              *)
(***************************************************************************)
GLOBAL_SCOPE_INIT_NAME == "@__global_init__"

\* What the target code generator emits for a handler body, before setCode.
Bodies == { <<NOP, EXIT1>>, <<NOP, NOP>>, <<NOP, JMP1>> }
InitBody == <<NOP, NOP, EXIT0>>

\* A parsed unit: whether it declares unit-scope variables, and the body of
\* its handler `main`.
Units == [globals : BOOLEAN, main : Bodies]

HandlerNames == {"main", "other"}
Quotas == {NoQuota} \cup (1..MaxQuota)

\* diagnostics::Report::containsFailures (ConsoleReport and BufferedReport)
containsFailures(report) == \E k \in 1..Len(report) : report[k] # "Warning"

\* IRGenerator::generate: errorCount_ is only ever initialised to 0, so the
\* program is returned whether or not type errors were reported.
IRGenerator_generate(u, irErr) ==
  [ir |-> u, report |-> IF irErr THEN <<"TypeError">> ELSE <<>>]

\* The passes Interpreter::compile registers for an optimization level.
RegisteredPasses(level) ==
  IF level > 0
    THEN <<"eliminate-empty-blocks">> \o
         (IF level >= 1
            THEN <<"eliminate-linear-br", "eliminate-unused-blocks",
                   "eliminate-unused-instr", "fold-constant-condbr",
                   "rewrite-br-to-exit", "rewrite-cond-br-to-same-branches">>
            ELSE <<>>)
    ELSE <<>>

\* TargetCodeGenerator().generate: one Handler per IR handler, each through
\* Handler::Handler -> setCode.
TargetCodeGenerator_generate(ir) ==
  [h \in (IF ir.globals THEN {GLOBAL_SCOPE_INIT_NAME} ELSE {}) \cup {"main"} |->
     IF h = "main" THEN setCode(ir.main) ELSE setCode(InitBody)]

\* Program::findHandler
findHandler(prog, name) == IF name \in DOMAIN prog THEN name ELSE None

\* Interpreter::compile as a function of its inputs and the fields it reads.
\* parseErr / irErr / linkErr: whether that stage pushes an error message.
compile(u, parseErr, irErr, linkErr, level) ==
  LET r1 == IF parseErr THEN <<"SyntaxError">> ELSE <<>> IN
  IF containsFailures(r1)
    THEN [ret |-> FALSE, stages |-> <<"parse">>, report |-> r1, passes |-> <<>>,
          programIR |-> programIR_, program |-> program_, initialized |-> initialized_]
    ELSE
      LET g  == IRGenerator_generate(u, irErr)
          r2 == r1 \o g.report
          ps == RegisteredPasses(level)
          st == <<"parse", "irgen">> \o
                (IF level > 0 THEN <<"optimize">> ELSE <<>>) \o <<"tcg", "link">>
          p  == TargetCodeGenerator_generate(g.ir)
          r3 == r2 \o (IF linkErr THEN <<"LinkError">> ELSE <<>>)
      IN
      IF containsFailures(r3)
        THEN [ret |-> FALSE, stages |-> st, report |-> r3, passes |-> ps,
              programIR |-> Ptr(g.ir), program |-> program_, initialized |-> initialized_]
        ELSE [ret |-> TRUE, stages |-> st, report |-> r3, passes |-> ps,
              programIR |-> Ptr(g.ir), program |-> Ptr(p), initialized |-> FALSE]

NoCompile == [ret |-> FALSE, stages |-> <<>>, report |-> <<>>, passes |-> <<>>]

InterpInit ==
  /\ programIR_ = NullPtr
  /\ program_ = NullPtr
  /\ initialized_ = FALSE
  /\ pc = "idle"
  /\ runner = IdleRunner
  /\ call = [name |-> None, quota |-> NoQuota]
  /\ retval = NullPtr
  /\ lastCompile = NoCompile
  /\ initExec = 0
  /\ runCalls = 0
  /\ dispatched = 0

InterpIdle == InterpInit

Compile(u, parseErr, irErr, linkErr, level) ==
  /\ pc = "idle"
  /\ LET c == compile(u, parseErr, irErr, linkErr, level) IN
     /\ programIR_' = c.programIR
     /\ program_' = c.program
     /\ initialized_' = c.initialized
     /\ retval' = Ptr(c.ret)
     /\ lastCompile' = [ret |-> c.ret, stages |-> c.stages, report |-> c.report,
                        passes |-> c.passes]
     /\ initExec' = IF c.ret THEN 0 ELSE initExec
     /\ runCalls' = IF c.ret THEN 0 ELSE runCalls
  /\ runner' = IdleRunner
  /\ dispatched' = 0
  /\ UNCHANGED <<pc, call>>

\* The Runner Interpreter::run creates for the requested handler.
RequestedRunner_NoQuota(h, q) == NewRunner(h, Deref(program_)[h], NoQuota)
RequestedRunner(h, q) == NewRunner(h, Deref(program_)[h], q)

\* The second half of Interpreter::run: look the requested handler up and
\* start its Runner with the caller's quota.
StartHandler(name, q) ==
  LET h == findHandler(Deref(program_), name) IN
  IF h = None
    THEN /\ retval' = Ptr(FALSE)
         /\ pc' = "idle"
         /\ runner' = IdleRunner
    ELSE /\ retval' = NullPtr
         /\ pc' = "handler"
         /\ runner' = RequestedRunner(h, q)

\* Interpreter::run marks the interpreter initialised before the global
\* scope initialiser runs.
MarkInitialized_Forgotten == UNCHANGED initialized_
MarkInitialized == initialized_' = TRUE

\* Interpreter::run(handlerName, userdata, quota, trace), up to the first Runner.
RunCall(name, q) ==
  /\ pc = "idle"
  /\ program_ # NullPtr
  /\ runCalls < MaxCalls
  /\ runCalls' = runCalls + 1
  /\ call' = [name |-> name, quota |-> q]
  /\ dispatched' = 0
  /\ IF ~initialized_
       THEN /\ MarkInitialized
            /\ IF findHandler(Deref(program_), GLOBAL_SCOPE_INIT_NAME) # None
                 THEN /\ pc' = "init"
                      /\ runner' = NewRunner(GLOBAL_SCOPE_INIT_NAME,
                                             Deref(program_)[GLOBAL_SCOPE_INIT_NAME], NoQuota)
                      /\ initExec' = initExec + 1
                      /\ retval' = NullPtr
                 ELSE /\ StartHandler(name, q)
                      /\ UNCHANGED initExec
       ELSE /\ StartHandler(name, q)
            /\ UNCHANGED <<initialized_, initExec>>
  /\ UNCHANGED <<programIR_, program_, lastCompile>>

\* One instruction of the Runner in progress.
Dispatch ==
  /\ pc \in {"init", "handler"}
  /\ runner.state = "Running"
  /\ dispatched < MaxDispatch
  /\ runner' = RunnerStep(runner)
  /\ dispatched' = dispatched + 1
  /\ UNCHANGED <<programIR_, program_, initialized_, pc, call, retval,
                 lastCompile, initExec, runCalls>>

\* Runner::run of @__global_init__ returned: its result is dropped.
InitDone ==
  /\ pc = "init"
  /\ runner.state # "Running"
  /\ StartHandler(call.name, call.quota)
  /\ UNCHANGED <<programIR_, program_, initialized_, call,
                 lastCompile, initExec, runCalls, dispatched>>

\* Runner::run of the requested handler returned: run returns its result.
HandlerDone ==
  /\ pc = "handler"
  /\ runner.state # "Running"
  /\ retval' = Ptr(runner.result)
  /\ pc' = "idle"
  /\ UNCHANGED <<programIR_, program_, initialized_, runner, call,
                 lastCompile, initExec, runCalls, dispatched>>

(***************************************************************************)
(*              flow::Value, flow::Instr, flow::BasicBlock                 *)
(***************************************************************************)
Instrs == {"i1", "i2"}
Blocks == {"b1", "b2"}
Values == Instrs \cup Blocks          \* every Instr and BasicBlock is a Value
InsertBlocks == {"b1"}                 \* the blocks instructions are appended to

\* The bookkeeping an operation threads through: operand lists, use lists
\* and successor / predecessor lists.  A use list and a successor list hold
\* one entry per addUse / linkSuccessor call; the model keeps the number of
\* entries per element.
IRState == [operands |-> operands, parent |-> parent,
            uses |-> uses, succs |-> succs, preds |-> preds]

\* Value::addUse / Value::removeUse
addUse(S, v, user) == [S EXCEPT !.uses[v][user] = @ + 1]
removeUse(S, v, user) ==
  [S EXCEPT !.uses[v][user] = IF @ > 0 THEN @ - 1 ELSE 0]

\* BasicBlock::linkSuccessor / BasicBlock::unlinkSuccessor
linkSuccessor(S, b, succ) ==
  [S EXCEPT !.succs[b][succ] = @ + 1, !.preds[succ][b] = @ + 1]
unlinkSuccessor(S, b, succ) ==
  [S EXCEPT !.succs[b][succ] = IF @ > 0 THEN @ - 1 ELSE 0,
            !.preds[succ][b] = IF @ > 0 THEN @ - 1 ELSE 0]

\* The loop of both Instr constructors: every non-null operand gets a use.
RECURSIVE AddUses(_, _, _)
AddUses(S, i, k) ==
  IF k > Len(S.operands[i]) THEN S
  ELSE LET op == S.operands[i][k] IN
       AddUses(IF op # None THEN addUse(S, op, i) ELSE S, i, k + 1)

\* Instr::Instr(ty, ops, name)
Instr_Instr(S, i, ops) ==
  AddUses([S EXCEPT !.operands[i] = ops, !.parent[i] = None], i, 1)

\* Instr::Instr(const Instr& v): the copy is in no block; Value(v) starts
\* with an empty use list.
Instr_Copy(S, i, v) ==
  AddUses([S EXCEPT !.operands[i] = S.operands[v], !.parent[i] = None,
                    !.uses[i] = [u \in Instrs |-> 0]], i, 1)

\* Instr::~Instr
RECURSIVE DropUses(_, _, _)
DropUses(S, i, k) ==
  IF k > Len(S.operands[i]) THEN S
  ELSE LET op == S.operands[i][k]
           S1 == IF op # None THEN removeUse(S, op, i) ELSE S
           S2 == IF op # None /\ S.parent[i] # None /\ op \in Blocks
                   THEN unlinkSuccessor(S1, S.parent[i], op) ELSE S1
       IN DropUses(S2, i, k + 1)

Instr_Destroy(S, i) ==
  [DropUses(S, i, 1) EXCEPT !.operands[i] = <<>>, !.parent[i] = None]

\* Instr::addOperand
addOperand(S, i, value) ==
  LET S1 == [S EXCEPT !.operands[i] = Append(@, value)]
      S2 == addUse(S1, value, i)
  IN IF value \in Blocks THEN linkSuccessor(S2, S.parent[i], value) ELSE S2

\* Instr::setOperand
setOperand_KeepsOldUse(S, i, k, value) ==
  LET old == S.operands[i][k]
      S1  == [S EXCEPT !.operands[i][k] = value]
      S2  == IF old # None /\ old \in Blocks
               THEN unlinkSuccessor(S1, S.parent[i], old) ELSE S1
      S3  == IF value # None THEN addUse(S2, value, i) ELSE S2
  IN IF value # None /\ value \in Blocks
       THEN linkSuccessor(S3, S.parent[i], value) ELSE S3

setOperand_KeepsOldLink(S, i, k, value) ==
  LET old == S.operands[i][k]
      S1  == [S EXCEPT !.operands[i][k] = value]
      S2  == IF old # None THEN removeUse(S1, old, i) ELSE S1
      S3  == IF value # None THEN addUse(S2, value, i) ELSE S2
  IN IF value # None /\ value \in Blocks
       THEN linkSuccessor(S3, S.parent[i], value) ELSE S3

setOperand(S, i, k, value) ==
  LET old == S.operands[i][k]
      S1  == [S EXCEPT !.operands[i][k] = value]
      S2  == IF old # None THEN removeUse(S1, old, i) ELSE S1
      S3  == IF old # None /\ old \in Blocks
               THEN unlinkSuccessor(S2, S.parent[i], old) ELSE S2
      S4  == IF value # None THEN addUse(S3, value, i) ELSE S3
  IN IF value # None /\ value \in Blocks
       THEN linkSuccessor(S4, S.parent[i], value) ELSE S4

\* Instr::replaceOperand: setOperand on every slot that holds `old`.
RECURSIVE ReplaceFrom(_, _, _, _, _)
ReplaceFrom(S, i, k, old, replacement) ==
  IF k > Len(S.operands[i]) THEN S
  ELSE ReplaceFrom(IF S.operands[i][k] = old
                     THEN setOperand(S, i, k, replacement) ELSE S,
                   i, k + 1, old, replacement)

replaceOperand(S, i, old, replacement) == ReplaceFrom(S, i, 1, old, replacement)

\* Instr::clearOperands: setOperand(k, nullptr) on every slot, then clear().
RECURSIVE ClearFrom(_, _, _)
ClearFrom(S, i, k) ==
  IF k > Len(S.operands[i]) THEN S
  ELSE ClearFrom(setOperand(S, i, k, None), i, k + 1)

clearOperands(S, i) == [ClearFrom(S, i, 1) EXCEPT !.operands[i] = <<>>]

\* BasicBlock::push_back: the instruction joins the block, and the block is
\* linked to every BasicBlock operand of it.
RECURSIVE LinkOperands(_, _, _, _)
LinkOperands(S, b, i, k) ==
  IF k > Len(S.operands[i]) THEN S
  ELSE LET op == S.operands[i][k] IN
       LinkOperands(IF op \in Blocks THEN linkSuccessor(S, b, op) ELSE S, b, i, k + 1)

BasicBlock_push_back(S, b, i) ==
  LinkOperands([S EXCEPT !.parent[i] = b], b, i, 1)

\* Sequences of at most n operand slots
OperandLists(n) == UNION { [1..m -> Values] : m \in 0..n }

\* Whether a block operand is touched: such an operation dereferences the
\* instruction's parent block.
TouchesBlock(v) == v # None /\ v \in Blocks

IRInit ==
  /\ live = {}
  /\ operands = [i \in Instrs |-> <<>>]
  /\ parent = [i \in Instrs |-> None]
  /\ uses = [v \in Values |-> [u \in Instrs |-> 0]]
  /\ succs = [b \in Blocks |-> [c \in Blocks |-> 0]]
  /\ preds = [b \in Blocks |-> [c \in Blocks |-> 0]]
  /\ lastOp = "none"

IRIdle == IRInit

IRAssign(S) ==
  /\ operands' = S.operands
  /\ parent' = S.parent
  /\ uses' = S.uses
  /\ succs' = S.succs
  /\ preds' = S.preds

\* A value is destroyed only when nothing uses it any more.
Unused(v) == \A u \in Instrs \ {v} : uses[v][u] = 0

Construct(i, ops) ==
  /\ i \notin live
  /\ \A k \in 1..Len(ops) : ops[k] \in Instrs => ops[k] \in live
  /\ live' = live \cup {i}
  /\ IRAssign(Instr_Instr(IRState, i, ops))
  /\ lastOp' = "other"

CopyConstruct(i, v) ==
  /\ i \notin live
  /\ v \in live
  /\ live' = live \cup {i}
  /\ IRAssign(Instr_Copy(IRState, i, v))
  /\ lastOp' = "other"

PushBack(b, i) ==
  /\ i \in live
  /\ parent[i] = None
  /\ IRAssign(BasicBlock_push_back(IRState, b, i))
  /\ lastOp' = "other"
  /\ UNCHANGED live

AddOperand(i, value) ==
  /\ i \in live
  /\ Len(operands[i]) < MaxOps
  /\ value \in Instrs => value \in live
  /\ TouchesBlock(value) => parent[i] # None
  /\ IRAssign(addOperand(IRState, i, value))
  /\ lastOp' = "other"
  /\ UNCHANGED live

\* What a setOperand call did to a value that the instruction holds in
\* more than one slot.
SetOperandKind(i, k, value) ==
  LET old == operands[i][k]
      dup == /\ old # None
             /\ old # value
             /\ \E j \in 1..Len(operands[i]) : j # k /\ operands[i][j] = old
  IN IF ~dup THEN "other"
     ELSE IF old \in Blocks THEN "setOperand:sharedBlock" ELSE "setOperand:shared"

SetOperand(i, k, value) ==
  /\ i \in live
  /\ k \in 1..Len(operands[i])
  /\ value \in Instrs => value \in live
  /\ (TouchesBlock(value) \/ TouchesBlock(operands[i][k])) => parent[i] # None
  /\ IRAssign(setOperand(IRState, i, k, value))
  /\ lastOp' = SetOperandKind(i, k, value)
  /\ UNCHANGED live

ReplaceOperand(i, old, replacement) ==
  /\ i \in live
  /\ \E k \in 1..Len(operands[i]) : operands[i][k] = old
  /\ replacement \in Instrs => replacement \in live
  /\ (TouchesBlock(old) \/ TouchesBlock(replacement)) => parent[i] # None
  /\ IRAssign(replaceOperand(IRState, i, old, replacement))
  /\ lastOp' = "other"
  /\ UNCHANGED live

ClearOperands(i) ==
  /\ i \in live
  /\ (\E k \in 1..Len(operands[i]) : TouchesBlock(operands[i][k])) => parent[i] # None
  /\ IRAssign(clearOperands(IRState, i))
  /\ lastOp' = "other"
  /\ UNCHANGED live

Destroy(i) ==
  /\ i \in live
  /\ Unused(i)
  /\ live' = live \ {i}
  /\ IRAssign(Instr_Destroy(IRState, i))
  /\ lastOp' = "other"


(***************************************************************************)
(*                     flow::IRProgram constant pool                       *)
(***************************************************************************)
PoolKinds == {"numbers", "strings", "ipaddrs", "cidrs", "regexps", "arrays"}

\* util::Cidr operator==: same prefix and same address.
CidrEq(a, b) == a.prefix = b.prefix /\ a.ip = b.ip

\* `table[i]->get() == literal` for the literal type of each table.  An
\* array literal is a vector of Constant pointers, compared element by element.
LiteralEq(kind, a, b) == IF kind = "cidrs" THEN CidrEq(a, b) ELSE a = b

\* The literals a get call is made with.  The elements of an array literal
\* point to already interned numbers: <<table, index>>.
Literals(kind) ==
  CASE kind = "numbers" -> {0, 1}
    [] kind = "strings" -> {"a", "b"}
    [] kind = "ipaddrs" -> {"10.0.0.1", "::1"}
    [] kind = "cidrs"   -> {[ip |-> "10.0.0.0", prefix |-> 8],
                            [ip |-> "10.0.0.0", prefix |-> 24],
                            [ip |-> "10.1.0.0", prefix |-> 24]}
    [] kind = "regexps" -> {"^a", "b$"}
    [] kind = "arrays"  ->
         LET ptrs == {<<"numbers", k>> : k \in 1..Len(tables["numbers"])}
         IN {<<>>} \cup {<<x>> : x \in ptrs}

\* The search loop of IRProgram::get: the first index whose entry equals
\* the literal, or 0.
RECURSIVE FindFrom(_, _, _, _)
FindFrom(kind, table, literal, i) ==
  IF i > Len(table) THEN 0
  ELSE IF LiteralEq(kind, table[i], literal) THEN i
  ELSE FindFrom(kind, table, literal, i + 1)

\* IRProgram::get(table, literal): the table afterwards and the index of
\* the returned entry.
IRProgram_get_AlwaysAppends(kind, table, literal) ==
  [table |-> Append(table, literal), ret |-> Len(table) + 1]

IRProgram_get(kind, table, literal) ==
  LET i == FindFrom(kind, table, literal, 1) IN
  IF i # 0 THEN [table |-> table, ret |-> i]
  ELSE [table |-> Append(table, literal), ret |-> Len(table) + 1]

NoGet == [kind |-> None, n |-> 0, ret |-> 0, before |-> <<>>, literal |-> <<>>]

PoolInit ==
  /\ tables = [k \in PoolKinds |-> <<>>]
  /\ lastGet = NoGet

PoolIdle == PoolInit

Get(kind, literal) ==
  /\ lastGet.n < MaxGets
  /\ LET r == IRProgram_get(kind, tables[kind], literal) IN
     /\ tables' = [tables EXCEPT ![kind] = r.table]
     /\ lastGet' = [kind |-> kind, n |-> lastGet.n + 1, ret |-> r.ret,
                    before |-> tables[kind], literal |-> <<literal>>]

(***************************************************************************)
(*                          flow::PassManager                              *)
(***************************************************************************)
PassNames == {"eliminate-empty-blocks", "eliminate-unused-instr"}

PMInit ==
  /\ handlerPasses_ = <<>>
  /\ pmpc = "idle"
  /\ pmIt = 1
  /\ changes = 0
  /\ budget = MaxChanges
  /\ pmLog = <<>>

PMIdle == PMInit

\* PassManager::registerPass
RegisterPass(name) ==
  /\ pmpc = "idle"
  /\ Len(handlerPasses_) < MaxPasses
  /\ handlerPasses_' = Append(handlerPasses_, name)
  /\ UNCHANGED <<pmpc, pmIt, changes, budget, pmLog>>

\* PassManager::run(IRHandler*) is entered: the first round begins.
RunBegin ==
  /\ pmpc = "idle"
  /\ pmpc' = "round"
  /\ changes' = 0
  /\ pmIt' = 1
  /\ pmLog' = <<>>
  /\ UNCHANGED <<handlerPasses_, budget>>

\* The body of the inner loop: the next pass of the round is executed and
\* reports whether it changed the handler.
ExecPass(changed) ==
  /\ pmpc = "round"
  /\ pmIt <= Len(handlerPasses_)
  /\ changed => budget > 0
  /\ pmLog' = Append(pmLog, [idx |-> pmIt, name |-> handlerPasses_[pmIt],
                             changed |-> changed])
  /\ changes' = IF changed THEN changes + 1 ELSE changes
  /\ budget' = IF changed THEN budget - 1 ELSE budget
  /\ pmIt' = pmIt + 1
  /\ UNCHANGED <<handlerPasses_, pmpc>>

\* The end of a round: `if (!changes) break;`, otherwise the next round.
RoundEnd_BreaksAfterFirstRound ==
  /\ pmpc = "round"
  /\ pmIt > Len(handlerPasses_)
  /\ pmpc' = "done"
  /\ UNCHANGED <<handlerPasses_, pmIt, changes, budget, pmLog>>

RoundEnd ==
  /\ pmpc = "round"
  /\ pmIt > Len(handlerPasses_)
  /\ IF changes = 0
       THEN /\ pmpc' = "done"
            /\ UNCHANGED <<pmIt, changes>>
       ELSE /\ changes' = 0
            /\ pmIt' = 1
            /\ UNCHANGED pmpc
  /\ UNCHANGED <<handlerPasses_, budget, pmLog>>

\* run returned; the pass manager may be used again.
RunReturn ==
  /\ pmpc = "done"
  /\ pmpc' = "idle"
  /\ UNCHANGED <<handlerPasses_, pmIt, changes, budget, pmLog>>


(***************************************************************************)
(*                 lang::IRGenerator over flow::IRBuilder                  *)
(***************************************************************************)
\* ---- the AST handed to the generator
\* Expressions: a literal, or the short-circuit `l or r` (Opcode::BOR).
Lit == <<"lit">>
OrExpr == <<"or", Lit, Lit>>
Exprs == {Lit, OrExpr}

\* Statements:
\*   <<"null">>                     no statement (a null Stmt*)
\*   <<"builtin">>                  call of a builtin handler or function
\*   <<"call", h>>                  call of the source handler h
\*   <<"if", cond, then, else>>     CondStmt
\*   <<"while", cond, body>>        WhileStmt
\*   <<"match", cond, cases, else>> MatchStmt, one label per case
\*   <<"seq", stmts>>               CompoundStmt
HandlerIds == {"h1", "h2"}
Atoms == {<<"builtin">>} \cup {<<"call", h>> : h \in HandlerIds}
OptAtoms == Atoms \cup {<<"null">>}
FlatStmts ==
  Atoms
  \cup {<<"if", c, t, e>> : c \in Exprs, t \in Atoms, e \in OptAtoms}
  \cup {<<"while", c, b>> : c \in Exprs, b \in Atoms}
  \cup {<<"match", c, <<a>>, e>> : c \in Exprs, a \in Atoms, e \in OptAtoms}
  \cup {<<"seq", <<a, b>>>> : a \in Atoms, b \in Atoms}
NestedStmts ==
  { <<"seq", << <<"while", OrExpr,
                  <<"if", OrExpr,
                    <<"match", Lit, << <<"builtin">>, <<"call", "h2">> >>, <<"null">> >>,
                    <<"builtin">> >> >>,
                <<"builtin">> >> >> }

GlobalLists == UNION { [1..m -> Exprs] : m \in 0..MaxGlobals }

\* A unit: the unit-scope symbols in declaration order, and the handlers.
MakeUnit(globals, body1, locals2, body2, globalsFirst) ==
  LET vs == [k \in 1..Len(globals) |-> <<"var", globals[k]>>]
      hs == << <<"handler", "h1">>, <<"handler", "h2">> >>
  IN [syms |-> IF globalsFirst THEN vs \o hs ELSE hs \o vs,
      handlers |-> [h \in HandlerIds |->
                      IF h = "h1" THEN [locals |-> <<>>, body |-> body1]
                                  ELSE [locals |-> locals2, body |-> body2]]]

GenUnits ==
  { MakeUnit(g, b1, l2, b2, f) :
      g \in GlobalLists, b1 \in FlatStmts \cup NestedStmts,
      l2 \in {<<>>, <<OrExpr>>}, b2 \in Atoms, f \in BOOLEAN }

\* ---- flow::IRBuilder
\* The builder: the handlers of the program (name |-> blocks, a block being
\* its instructions in order), the current handler, the insert point, and
\* IRGenerator::handlerStack_ with what codegenInline reported.
Ins(op, targets) == [op |-> op, targets |-> targets]

getHandler(B, name) ==
  IF name \in DOMAIN B.handlers THEN B
  ELSE [B EXCEPT !.handlers = [n \in DOMAIN B.handlers \cup {name} |->
                                 IF n = name THEN <<>> ELSE B.handlers[n]]]
setHandler(B, name) == [B EXCEPT !.cur = name]
NextBlock(B) == Len(B.handlers[B.cur]) + 1
createBlock(B) == [B EXCEPT !.handlers[B.cur] = Append(@, <<>>)]
setInsertPoint(B, k) == [B EXCEPT !.ip = k]
insert(B, instr) == [B EXCEPT !.handlers[B.cur][B.ip] = Append(@, instr)]

createAlloca(B) == insert(B, Ins("alloca", <<>>))
createStore(B) == insert(B, Ins("store", <<>>))
createInvoke(B) == insert(B, Ins("call", <<>>))
createRet(B) == insert(B, Ins("ret", <<>>))
createBr(B, target) == insert(B, Ins("br", <<target>>))
createCondBr(B, t, f) == insert(B, Ins("condbr", <<t, f>>))
createMatch(B) == insert(B, Ins("match", <<>>))
\* MatchInstr::addCase / setElseBlock on the match instruction at (blk, pos)
addTarget(B, blk, pos, target) ==
  [B EXCEPT !.handlers[B.cur][blk][pos].targets = Append(@, target)]

\* ---- lang::IRGenerator
RECURSIVE codegenExpr(_, _)
RECURSIVE codegenStmt(_, _)
RECURSIVE codegenSeq(_, _, _)
RECURSIVE codegenCases(_, _, _, _, _, _)
RECURSIVE codegenLocals(_, _, _)
RECURSIVE codegenInline(_, _)

\* IRGenerator::accept(BinaryExpr&) for BOR; literals emit no instruction.
codegenExpr(B, e) ==
  IF e[1] = "lit" THEN B
  ELSE
    LET borLeft  == NextBlock(B)
        borRight == borLeft + 1
        borCont  == borLeft + 2
        B1 == createAlloca(createBlock(createBlock(createBlock(B))))
        B2 == createCondBr(codegenExpr(B1, e[2]), borLeft, borRight)
        B3 == createBr(createStore(setInsertPoint(B2, borLeft)), borCont)
        B4 == codegenExpr(setInsertPoint(B3, borRight), e[3])
        B5 == createBr(createStore(B4), borCont)
    IN setInsertPoint(B5, borCont)

\* IRGenerator::accept(VariableSym&)
acceptVariableSym(B, initializer) ==
  createStore(codegenExpr(createAlloca(B), initializer))

\* IRGenerator::accept(CompoundStmt&)
codegenSeq(B, stmts, k) ==
  IF k > Len(stmts) THEN B
  ELSE codegenSeq(codegenStmt(B, stmts[k]), stmts, k + 1)

\* The loop over the cases of IRGenerator::accept(MatchStmt&)
codegenCases(B, cases, k, contBlock, mblk, mpos) ==
  IF k > Len(cases) THEN B
  ELSE
    LET bb == NextBlock(B)
        B1 == codegenStmt(setInsertPoint(createBlock(B), bb), cases[k])
        B2 == addTarget(createBr(B1, contBlock), mblk, mpos, bb)
    IN codegenCases(B2, cases, k + 1, contBlock, mblk, mpos)

\* The loop over the handler's own symbols in codegenInline
codegenLocals(B, locals, k) ==
  IF k > Len(locals) THEN B
  ELSE codegenLocals(acceptVariableSym(B, locals[k]), locals, k + 1)

\* IRGenerator::codegenInline
codegenInline_NoPop(B, h) ==
  IF \E k \in 1..Len(B.stack) : B.stack[k] = h
    THEN [B EXCEPT !.recErrors = @ + 1]
    ELSE
      LET B1 == [B EXCEPT !.stack = Append(@, h)]
          B2 == codegenLocals(B1, unit.handlers[h].locals, 1)
      IN codegenStmt(B2, unit.handlers[h].body)

codegenInline(B, h) ==
  IF \E k \in 1..Len(B.stack) : B.stack[k] = h
    THEN [B EXCEPT !.recErrors = @ + 1]
    ELSE
      LET B1 == [B EXCEPT !.stack = Append(@, h),
                          !.reentered = @ \/ (\E k \in 1..Len(B.stack) : B.stack[k] = h)]
          B2 == codegenLocals(B1, unit.handlers[h].locals, 1)
          B3 == codegenStmt(B2, unit.handlers[h].body)
      IN [B3 EXCEPT !.stack = SubSeq(@, 1, Len(@) - 1)]

\* IRGenerator::accept for statements
codegenStmt(B, s) ==
  CASE s[1] = "null" -> B
    [] s[1] = "builtin" -> createInvoke(B)
    [] s[1] = "call" -> codegenInline(B, s[2])
    [] s[1] = "seq" -> codegenSeq(B, s[2], 1)
    [] s[1] = "if" ->
         LET trueBlock  == NextBlock(B)
             falseBlock == trueBlock + 1
             contBlock  == trueBlock + 2
             B1 == codegenExpr(createBlock(createBlock(createBlock(B))), s[2])
             B2 == createCondBr(B1, trueBlock, falseBlock)
             B3 == createBr(codegenStmt(setInsertPoint(B2, trueBlock), s[3]), contBlock)
             B4 == createBr(codegenStmt(setInsertPoint(B3, falseBlock), s[4]), contBlock)
         IN setInsertPoint(B4, contBlock)
    [] s[1] = "while" ->
         LET bodyBlock == NextBlock(B)
             condBlock == bodyBlock + 1
             doneBlock == bodyBlock + 2
             B1 == createBr(createBlock(createBlock(createBlock(B))), condBlock)
             B2 == createBr(codegenStmt(setInsertPoint(B1, bodyBlock), s[3]), condBlock)
             B3 == codegenExpr(setInsertPoint(B2, condBlock), s[2])
             B4 == createCondBr(B3, bodyBlock, doneBlock)
         IN setInsertPoint(B4, doneBlock)
    [] s[1] = "match" ->
         LET B1 == codegenExpr(B, s[2])
             contBlock == NextBlock(B1)
             mblk == B1.ip
             mpos == Len(B1.handlers[B1.cur][B1.ip]) + 1
             B2 == createMatch(createBlock(B1))
             B3 == codegenCases(B2, s[3], 1, contBlock, mblk, mpos)
             B4 == IF s[4] # <<"null">>
                     THEN LET elseBlock == NextBlock(B3)
                              B5 == setInsertPoint(createBlock(B3), elseBlock)
                              B6 == createBr(codegenStmt(B5, s[4]), contBlock)
                          IN addTarget(B6, mblk, mpos, elseBlock)
                     ELSE addTarget(B3, mblk, mpos, contBlock)
         IN setInsertPoint(B4, contBlock)

NewBuilder(handlers) ==
  [handlers |-> handlers, cur |-> None, ip |-> 0, stack |-> <<>>,
   recErrors |-> 0, reentered |-> FALSE]

\* IRGenerator::accept(HandlerSym&)
acceptHandlerSym(B, name) ==
  LET B1 == setHandler(getHandler(B, name), name)
      B2 == setInsertPoint(createBlock(B1), NextBlock(B1))
  IN createRet(codegenInline(B2, name))

\* The VariableSym branch of the loop in IRGenerator::accept(UnitSym&)
acceptGlobal(B, initializer) ==
  LET B1 == setHandler(getHandler(B, GLOBAL_SCOPE_INIT_NAME), GLOBAL_SCOPE_INIT_NAME)
      B2 == IF Len(B1.handlers[B1.cur]) = 0
              THEN setInsertPoint(createBlock(B1), NextBlock(B1))
              ELSE setInsertPoint(B1, 1)
  IN acceptVariableSym(B2, initializer)

\* The end of IRGenerator::accept(UnitSym&): the initialiser gets its ret.
finalizeGlobalInit(B) ==
  IF GLOBAL_SCOPE_INIT_NAME \in DOMAIN B.handlers
    THEN createRet(setInsertPoint(setHandler(B, GLOBAL_SCOPE_INIT_NAME), 1))
    ELSE B

GenInit ==
  /\ unit \in GenUnits
  /\ symIdx = 1
  /\ irHandlers = <<>>
  /\ genLog = <<>>

GenIdle ==
  /\ unit = <<>>
  /\ symIdx = 1
  /\ irHandlers = <<>>
  /\ genLog = <<>>

\* One iteration of the loop in accept(UnitSym&) over a unit-scope variable
GenGlobal ==
  /\ symIdx <= Len(unit.syms)
  /\ unit.syms[symIdx][1] = "var"
  /\ irHandlers' = acceptGlobal(NewBuilder(irHandlers), unit.syms[symIdx][2]).handlers
  /\ symIdx' = symIdx + 1
  /\ UNCHANGED <<unit, genLog>>

\* One iteration of the loop in accept(UnitSym&) over a handler
GenHandler ==
  /\ symIdx <= Len(unit.syms)
  /\ unit.syms[symIdx][1] = "handler"
  /\ LET name == unit.syms[symIdx][2]
         B == acceptHandlerSym(NewBuilder(irHandlers), name)
     IN /\ irHandlers' = B.handlers
        /\ genLog' = Append(genLog, [name |-> name, recErrors |-> B.recErrors,
                                     reentered |-> B.reentered, stack |-> B.stack])
  /\ symIdx' = symIdx + 1
  /\ UNCHANGED unit

GenFinalize ==
  /\ symIdx = Len(unit.syms) + 1
  /\ irHandlers' = finalizeGlobalInit(NewBuilder(irHandlers)).handlers
  /\ symIdx' = symIdx + 1
  /\ UNCHANGED <<unit, genLog>>

GenDone == symIdx = Len(unit.syms) + 2

\* ---- structure of the generated IR
IsTerminator(instr) == instr.op \in {"br", "condbr", "ret", "match"}

BlockTargets(block) ==
  UNION { {block[k].targets[t] : t \in 1..Len(block[k].targets)} : k \in 1..Len(block) }

\* The blocks reachable from the entry block along branch targets
RECURSIVE ReachFrom(_, _)
ReachFrom(blocks, set) ==
  LET next == set \cup UNION { BlockTargets(blocks[b]) : b \in set }
  IN IF next = set THEN set ELSE ReachFrom(blocks, next)

ReachableBlocks(blocks) == IF Len(blocks) = 0 THEN {} ELSE ReachFrom(blocks, {1})

EndsWithOneTerminator(block) ==
  /\ Len(block) >= 1
  /\ IsTerminator(block[Len(block)])
  /\ \A k \in 1..(Len(block) - 1) : ~IsTerminator(block[k])

\* ---- the call graph of the unit's source handlers
RECURSIVE Callees(_)
RECURSIVE CalleesOfList(_, _)
Callees(s) ==
  CASE s[1] = "call" -> {s[2]}
    [] s[1] = "seq" -> CalleesOfList(s[2], 1)
    [] s[1] = "if" -> Callees(s[3]) \cup Callees(s[4])
    [] s[1] = "while" -> Callees(s[3])
    [] s[1] = "match" -> CalleesOfList(s[3], 1) \cup Callees(s[4])
    [] OTHER -> {}
CalleesOfList(stmts, k) ==
  IF k > Len(stmts) THEN {} ELSE Callees(stmts[k]) \cup CalleesOfList(stmts, k + 1)

DirectCalls(h) == Callees(unit.handlers[h].body)

\* Handlers reached from h by one or more calls
RECURSIVE CallClosure(_)
CallClosure(set) ==
  LET next == set \cup UNION { DirectCalls(g) : g \in set }
  IN IF next = set THEN set ELSE CallClosure(next)
CalledFrom(h) == CallClosure(DirectCalls(h))

\* Expanding h meets a handler that calls itself directly or through a chain
ReachesCycle(h) == \E g \in {h} \cup CalledFrom(h) : g \in CalledFrom(g)


(***************************************************************************)
(*                     lang::Lexer (words), lang::Parser                   *)
(***************************************************************************)
\* The keyword table of Lexer::parseIdent.
KeywordToken(word) ==
  CASE word = "in" -> "In"           [] word = "var" -> "Var"
    [] word = "match" -> "Match"     [] word = "on" -> "On"
    [] word = "for" -> "For"         [] word = "do" -> "Do"
    [] word = "if" -> "If"           [] word = "then" -> "Then"
    [] word = "else" -> "Else"       [] word = "unless" -> "Unless"
    [] word = "import" -> "Import"   [] word = "from" -> "From"
    [] word = "handler" -> "Handler" [] word = "and" -> "And"
    [] word = "or" -> "Or"           [] word = "xor" -> "Xor"
    [] word = "not" -> "Not"         [] word = "shl" -> "Shl"
    [] word = "shr" -> "Shr"         [] word = "bool" -> "BoolType"
    [] word = "int" -> "NumberType"  [] word = "string" -> "StringType"
    [] OTHER -> "Unknown"

\* Lexer::parseIdent on a word: a keyword, a boolean literal or an identifier.
parseIdent(word) ==
  IF KeywordToken(word) # "Unknown" THEN KeywordToken(word)
  ELSE IF word \in {"true", "yes", "false", "no"} THEN "Boolean"
  ELSE "Ident"

\* Lexer::nextToken on one lexeme of the source.
LexWord(word) ==
  CASE word = ";" -> "Semicolon"
    [] word = "{" -> "Begin"
    [] word = "}" -> "End"
    [] word = "=" -> "Assign"
    [] word = "1" -> "Number"
    [] word = "'s'" -> "String"
    [] word = "10.0.0.1" -> "IP"
    [] OTHER -> parseIdent(word)

\* ---- the parser's view of the lexer, and its report
token(P) == IF P.pos > Len(source) THEN "Eof" ELSE LexWord(source[P.pos])
\* Lexer::stringValue: the text of the last identifier, keyword or literal
\* lexed; the punctuation tokens leave stringValue_ as it was.
RECURSIVE lastText(_)
lastText(k) ==
  IF k = 0 THEN ""
  ELSE IF source[k] \in {";", "{", "}", "="} THEN lastText(k - 1)
  ELSE source[k]
stringValue(P) == lastText(IF P.pos > Len(source) THEN Len(source) ELSE P.pos)
nextToken(P) == IF P.pos > Len(source) THEN P ELSE [P EXCEPT !.pos = @ + 1]
syntaxError(P) == [P EXCEPT !.report = Append(@, "SyntaxError")]
typeError(P) == [P EXCEPT !.report = Append(@, "TypeError")]
Returns(P, value) == [P EXCEPT !.ret = value]
\* A statement node: its class and, for a CompoundStmt, the classes of the
\* statements pushed to it.
Stmt(kind, statements) == [kind |-> kind, statements |-> statements]
NewNode(P, kind, cond) ==
  [P EXCEPT !.nodes = Append(@, [kind |-> kind, cond |-> cond]),
            !.ret = Ptr(Stmt(kind, <<>>))]

\* Parser::consume (with Parser::expect) and Parser::consumeIf; ret tells
\* whether the token was there.
consume(P, value) ==
  IF token(P) # value THEN Returns(syntaxError(P), NullPtr)
  ELSE Returns(nextToken(P), Ptr(value))
consumeIf(P, value) ==
  IF token(P) = value THEN Returns(nextToken(P), Ptr(value)) ELSE Returns(P, NullPtr)

\* ---- symbols and symbol tables
\* The builtin handlers of the runtime: `accept`, without parameters.
\* Parser::importRuntime declares them in the unit scope before any
\* declaration of the source.
Builtins == {"accept"}

\* A symbol: id is its identity (the address of the object), type the type
\* of a variable's initializer, body and scope the statement and the symbol
\* table of an implemented handler.
Symbol(id, kind, name, type, body, scope) ==
  [id |-> id, kind |-> kind, name |-> name, type |-> type, body |-> body,
   scope |-> scope]
BuiltinSym(name) == Symbol(0, "BuiltinHandlerSym", name, "", NullPtr, <<>>)
\* std::make_unique of a symbol: the next object gets another identity.
Created(P) == [P EXCEPT !.nextId = @ + 1]

\* SymbolTable::lookup(name, Lookup::Self) over the symbols of the given
\* classes: the index of the first one of the name, or 0.
IndexOf(table, name, kinds) ==
  LET found == {k \in 1..Len(table) : table[k].name = name /\ table[k].kind \in kinds}
  IN IF found = {} THEN 0 ELSE CHOOSE k \in found : \A j \in found : k <= j
lookupSelf(table, name, kinds) ==
  IF IndexOf(table, name, kinds) = 0 THEN NullPtr
  ELSE Ptr(table[IndexOf(table, name, kinds)])

\* currentScope()->lookup(name, Lookup::All): the scope of the handler
\* being parsed, then the unit scope with the builtins first.
lookup(P, name) ==
  IF P.inHandler /\ IndexOf(P.locals, name, {"VariableSym", "HandlerSym"}) # 0
    THEN lookupSelf(P.locals, name, {"VariableSym", "HandlerSym"})
  ELSE IF name \in Builtins THEN Ptr(BuiltinSym(name))
  ELSE lookupSelf(P.syms, name, {"VariableSym", "HandlerSym"})

\* SymbolTable::appendSymbol on globalScope() and on currentScope()
globalScope_appendSymbol(P, symbol) == [P EXCEPT !.syms = Append(@, symbol)]
currentScope_appendSymbol_Global(P, symbol) == [P EXCEPT !.syms = Append(@, symbol)]
currentScope_appendSymbol(P, symbol) ==
  IF P.inHandler THEN [P EXCEPT !.locals = Append(@, symbol)]
  ELSE [P EXCEPT !.syms = Append(@, symbol)]
\* SymbolTable::removeSymbol
removeSymbol(table, id) ==
  LET i == CHOOSE k \in 1..Len(table) : table[k].id = id
  IN [k \in 1..(Len(table) - 1) |-> IF k < i THEN table[k] ELSE table[k + 1]]

\* Parser::expr down to primaryExpr / literalExpr: a literal of its type, a
\* reference to a variable or a handler (an unknown name is taken as a
\* forward-declared handler, appended to the global scope), or an error.
LiteralType(tok) ==
  CASE tok = "Number" -> "Number" [] tok = "Boolean" -> "Boolean"
    [] tok = "String" -> "String" [] tok = "IP" -> "IPAddress"
identExpr(P1, name, symbol) ==
  IF symbol = NullPtr
    THEN Returns(globalScope_appendSymbol(
                   Created(P1), Symbol(P1.nextId, "HandlerSym", name, "", NullPtr, <<>>)),
                 Ptr([type |-> "Handler", form |-> "ref"]))
  ELSE IF Deref(symbol).kind = "VariableSym"
    THEN Returns(P1, Ptr([type |-> Deref(symbol).type, form |-> "variable"]))
  ELSE IF Deref(symbol).kind = "HandlerSym"
    THEN Returns(P1, Ptr([type |-> "Handler", form |-> "ref"]))
  ELSE Returns(typeError(P1), NullPtr)
expr(P) ==
  IF token(P) \in {"Number", "Boolean", "String", "IP"}
    THEN Returns(nextToken(P), Ptr([type |-> LiteralType(token(P)), form |-> "literal"]))
  ELSE IF token(P) = "Ident"
    THEN identExpr(nextToken(P), stringValue(P), lookup(P, stringValue(P)))
  ELSE Returns(syntaxError(P), NullPtr)

\* makeOperator(Token::Not, expr): the opcode of `not` on a type, or EXIT.
makeOperator_Not(type) ==
  CASE type = "Number" -> "NCMPZ"
    [] type = "Boolean" -> "BNOT"
    [] type = "String" -> "SISEMPTY"
    [] OTHER -> "EXIT"

RECURSIVE stmt(_)
RECURSIVE compoundLoop(_, _)

\* Parser::whileStmt
whileStmt(P) ==
  The({ The({
    NewNode(IF "WhileLoop" \notin features_ THEN syntaxError(P3) ELSE P3,
            "WhileStmt", P2.ret)
    : P3 \in {stmt(P2)} })
    : P2 \in {expr(consume(P, "While"))} })

\* Parser::ifStmt, from the statement of the `then` branch on.
thenStmt(P3, cond) ==
  The({ The({
    IF P4.ret = NullPtr THEN P4
    ELSE IF P5.ret = NullPtr THEN NewNode(P5, "CondStmt", Ptr(cond))
    ELSE The({ IF P6.ret = NullPtr THEN P6 ELSE NewNode(P6, "CondStmt", Ptr(cond))
               : P6 \in {stmt(P5)} })
    : P5 \in {consumeIf(P4, "Else")} })
    : P4 \in {stmt(P3)} })

\* Parser::ifStmt.  A null condition is dereferenced: the parse is broken.
ifStmt(P) ==
  The({ The({
    IF P2.ret = NullPtr THEN Returns([P3 EXCEPT !.broken = TRUE], NullPtr)
    ELSE IF Deref(P2.ret).type = "Boolean" THEN thenStmt(P3, Deref(P2.ret))
    ELSE IF Deref(P2.ret).type = "String"
      THEN thenStmt(P3, [type |-> "Boolean", form |-> "SLEN != 0"])
    ELSE Returns(typeError(P3), NullPtr)
    : P3 \in {consumeIf(P2, "Then")} })
    : P2 \in {expr(consume(P, "If"))} })

\* Parser::postscriptStmt, entered with `if` or `unless` as the token.
postscriptStmt(P) ==
  The({
    IF P1.ret = NullPtr THEN P1
    ELSE
      LET op == token(P)
          opc == makeOperator_Not(Deref(P1.ret).type)
          cond == IF op = "Unless"
                    THEN [type |-> "Boolean", form |-> opc]
                    ELSE Deref(P1.ret)
      IN IF op = "Unless" /\ opc = "EXIT" THEN Returns(typeError(P1), NullPtr)
         ELSE The({ IF P2.ret = NullPtr THEN P2 ELSE NewNode(P2, "CondStmt", Ptr(cond))
                    : P2 \in {consume(P1, "Semicolon")} })
    : P1 \in {expr(nextToken(P))} })

\* Parser::callStmt with Parser::resolve for the builtin `accept`: without
\* arguments the call matches; with arguments no signature matches.
callStmt(P) ==
  IF token(P) \in {"Semicolon", "If", "Unless"}
    THEN Returns(P, Ptr(Stmt("ExprStmt", <<>>)))
  ELSE The({ IF P1.ret = NullPtr THEN P1 ELSE Returns(typeError(P1), NullPtr)
             : P1 \in {expr(P)} })

\* Parser::identStmt, after the statement of the callee is built.
calleeStmt(P3) ==
  IF P3.ret = NullPtr THEN P3
  ELSE IF token(P3) \in {"If", "Unless"} THEN postscriptStmt(P3)
  ELSE The({ IF P4.ret = NullPtr THEN P4 ELSE Returns(P4, P3.ret)
             : P4 \in {consume(P3, "Semicolon")} })

\* Parser::identStmt, the callee a variable: var '=' expr
assignStmt(P1, var) ==
  The({
    IF P2.ret = NullPtr THEN P2
    ELSE The({ IF P3.ret = NullPtr THEN P3
               ELSE IF var.type # Deref(P3.ret).type THEN Returns(typeError(P3), NullPtr)
               ELSE Returns(P3, Ptr(Stmt("AssignStmt", <<>>)))
               : P3 \in {expr(P2)} })
    : P2 \in {consume(P1, "Assign")} })

\* Parser::identStmt, the callee a handler: CallExpr(loc, callee, ParamList()).
\* The call site keeps the identity of the callee; forward tells whether the
\* callee had no body yet.
CallExpr(P, callee) ==
  Returns([P EXCEPT !.calls = Append(@, [name |-> callee.name, callee |-> callee.id,
                                          forward |-> callee.body = NullPtr])],
          Ptr(Stmt("ExprStmt", <<>>)))

\* Parser::identStmt, from the lookup of the name on.
namedStmt(P1, name, callee) ==
  IF callee = NullPtr
    THEN IF token(P1) # "Semicolon" THEN Returns(typeError(P1), NullPtr)
         ELSE calleeStmt(CallExpr(
                globalScope_appendSymbol(
                  Created(P1), Symbol(P1.nextId, "HandlerSym", name, "", NullPtr, <<>>)),
                Symbol(P1.nextId, "HandlerSym", name, "", NullPtr, <<>>)))
  ELSE IF Deref(callee).kind = "VariableSym" THEN calleeStmt(assignStmt(P1, Deref(callee)))
  ELSE IF Deref(callee).kind = "BuiltinHandlerSym" THEN calleeStmt(callStmt(P1))
  ELSE calleeStmt(CallExpr(P1, Deref(callee)))

\* Parser::identStmt
identStmt(P) == namedStmt(nextToken(P), stringValue(P), lookup(P, stringValue(P)))

\* Parser::varDecl
varDecl(P) ==
  The({ The({ The({
    IF P1.ret = NullPtr THEN P1
    ELSE IF P2.ret = NullPtr THEN P2
    ELSE IF P3.ret = NullPtr THEN P3
    ELSE The({ IF P4.ret = NullPtr THEN P4
               ELSE Returns(Created(consume(P4, "Semicolon")),
                            Ptr(Symbol(P4.nextId, "VariableSym", stringValue(P2),
                                       Deref(P4.ret).type, NullPtr, <<>>)))
               : P4 \in {expr(P3)} })
    : P3 \in {consume(P2, "Assign")} })
    : P2 \in {consume(P1, "Ident")} })
    : P1 \in {consume(P, "Var")} })

\* The declaration loop of Parser::compoundStmt; ret is null when a
\* declaration failed.
RECURSIVE varLoop(_)
varLoop(P) ==
  IF token(P) # "Var" THEN Returns(P, Ptr("Var"))
  ELSE The({ IF P1.ret = NullPtr THEN P1
             ELSE varLoop(currentScope_appendSymbol(P1, Deref(P1.ret)))
             : P1 \in {varDecl(P)} })

\* The statement loop of Parser::compoundStmt; cs holds the statements
\* pushed so far.
compoundLoop(P, cs) ==
  IF P.ret = NullPtr THEN P
  ELSE IF token(P) = "End" THEN Returns(nextToken(P), Ptr(Stmt("CompoundStmt", cs)))
  ELSE The({ IF P2.ret = NullPtr THEN P2
             ELSE compoundLoop(P2, Append(cs, Deref(P2.ret).kind))
             : P2 \in {stmt(P)} })

\* Parser::compoundStmt
compoundStmt(P) == compoundLoop(varLoop(nextToken(P)), <<>>)

\* Parser::stmt
stmt(P) ==
  CASE token(P) = "If" -> ifStmt(P)
    [] token(P) = "While" -> whileStmt(P)
    [] token(P) = "Begin" -> compoundStmt(P)
    [] token(P) = "Ident" -> identStmt(P)
    [] token(P) = "Semicolon" -> Returns(nextToken(P), Ptr(Stmt("CompoundStmt", <<>>)))
    [] OTHER -> Returns(syntaxError(P), NullPtr)

\* Parser::handlerDecl, after the body: P4 is the parser after leaveScope,
\* st the symbol table of the handler scope, handler the result of
\* currentScope()->lookup<HandlerSym>(name, Lookup::Self).
implementHandler(P4, name, st, handler) ==
  IF P4.ret = NullPtr THEN P4
  ELSE IF handler = NullPtr
    THEN Returns(Created(P4),
                 Ptr(Symbol(P4.nextId, "HandlerSym", name, "", P4.ret, st)))
  ELSE IF Deref(handler).body # NullPtr THEN Returns(typeError(P4), NullPtr)
  ELSE Returns([P4 EXCEPT !.syms = removeSymbol(@, Deref(handler).id)],
               Ptr([Deref(handler) EXCEPT !.body = P4.ret, !.scope = st]))

\* Parser::handlerDecl, the body between enterScope and leaveScope.
handlerBody(P3, name) ==
  The({ implementHandler([P4 EXCEPT !.inHandler = FALSE, !.locals = <<>>],
                         name, P4.locals,
                         lookupSelf(P4.syms, name, {"HandlerSym"}))
        : P4 \in {stmt([P3 EXCEPT !.inHandler = TRUE, !.locals = <<>>])} })

\* Parser::handlerDecl, from the name on.  The name is the lexer's
\* stringValue after consume(Token::Ident).
namedHandlerDecl(P1) ==
  The({ The({
    IF P3.ret # NullPtr
      THEN Returns(Created(P3),
                   Ptr(Symbol(P3.nextId, "HandlerSym", stringValue(P2), "", NullPtr, <<>>)))
    ELSE handlerBody(P3, stringValue(P2))
    : P3 \in {consumeIf(P2, "Semicolon")} })
    : P2 \in {consume(P1, "Ident")} })

\* Parser::handlerDecl
handlerDecl(P, keyword) == namedHandlerDecl(IF keyword THEN nextToken(P) ELSE P)

\* Parser::decl
decl(P) ==
  CASE token(P) = "Var" -> varDecl(P)
    [] token(P) = "Handler" -> handlerDecl(P, TRUE)
    [] token(P) = "Ident" -> handlerDecl(P, FALSE)
    [] OTHER -> Returns(P, NullPtr)

\* ---- the sources handed to the parser
Conditions == {"true", "1", "'s'", "10.0.0.1"}
BadStmt == <<"then", ";">>
WhileSource == <<"while", "true", "{", "}">>
SourceStmts ==
  {<<"accept", ";">>, <<";">>, BadStmt, WhileSource}
  \cup {<<"if", c, "accept", ";">> : c \in Conditions}
  \cup {<<"accept", "if", c, ";">> : c \in Conditions}
  \cup {<<"accept", "unless", c, ";">> : c \in Conditions}

RECURSIVE Flatten(_)
Flatten(seqs) == IF seqs = <<>> THEN <<>> ELSE Head(seqs) \o Flatten(Tail(seqs))

SourceBodies == UNION { [1..n -> SourceStmts] : n \in 0..MaxStmts }

\* `handler main { body }`, optionally followed by a second handler.
SecondHandlers ==
  {<<>>, <<"handler", "aux", "{", "accept", ";", "}">>,
         <<"handler", "aux", "{">> \o BadStmt \o <<"}">>}
GlobalDecls == {<<>>, <<"var", "x", "=", "1", ";">>}
StmtSources ==
  { globals \o <<"handler", "main", "{">> \o Flatten(body) \o <<"}">> \o second :
      globals \in GlobalDecls, body \in SourceBodies, second \in SecondHandlers }

\* Units of up to MaxDecls declarations: handlers that call a handler
\* defined later, forward declarations, definitions with and without the
\* keyword, bodies with variable declarations, and tokens no declaration
\* starts with.
SourceDecls ==
  { <<"handler", "main", "{", "foo", ";", "foo", ";", "}">>,
    <<"handler", "foo", ";">>,
    <<"handler", "foo", "{", "accept", ";", "}">>,
    <<"foo", "{", "}">>,
    <<"handler", "main", "{", "}">>,
    <<"handler", "main", "{", "var", "i", "=", "1", ";", "accept", ";", "}">>,
    <<"handler", "aux", "{", "var", "i", "=", "1", ";",
      "{", "var", "j", "=", "'s'", ";", "i", "=", "1", ";", "}", "}">>,
    <<"handler", "main", "accept", ";">>,
    <<";">>, <<"}">> }
DeclSources == { Flatten(decls) : decls \in UNION { [1..n -> SourceDecls] : n \in 1..MaxDecls } }
Sources == StmtSources \cup DeclSources

NewParser == [pos |-> 1, report |-> <<>>, nodes |-> <<>>, syms |-> <<>>,
              inHandler |-> FALSE, locals |-> <<>>, calls |-> <<>>, nextId |-> 1,
              broken |-> FALSE, ret |-> NullPtr]

ParseInit ==
  /\ source \in Sources
  /\ features_ \in SUBSET {"GlobalScope", "WhileLoop"}
  /\ parser = NewParser
  /\ unitSyms = <<>>
  /\ ppc = "decls"

ParseIdle ==
  /\ source = <<>>
  /\ features_ = {}
  /\ parser = NewParser
  /\ unitSyms = <<>>
  /\ ppc = "decls"

\* One iteration of the loop `while (symbol = decl())` of Parser::unit, to
\* the end of the loop when decl returns null.  unitSyms is the symbol
\* table of the unit as its owner sees it.
ParseDecl ==
  /\ ppc = "decls"
  /\ \E P \in {decl(parser)} :
       IF P.ret = NullPtr
         THEN /\ ppc' = "done"
              /\ parser' = P
       ELSE IF Deref(P.ret).kind = "VariableSym" /\ "GlobalScope" \notin features_
         THEN /\ ppc' = "decls"
              /\ parser' = syntaxError(P)
       ELSE /\ ppc' = "decls"
            /\ parser' = currentScope_appendSymbol(P, Deref(P.ret))
  /\ unitSyms' = parser'.syms
  /\ UNCHANGED <<source, features_>>

(***************************************************************************)
(*                         lang::Lexer (characters)                        *)
(***************************************************************************)
\* Characters are one-character strings; EOFCHAR is the EOF of the stream,
\* CR, LF and TAB are the control characters the escapes stand for.
EOFCHAR == "<EOF>"
CR == "<CR>"
LF == "<LF>"
TAB == "<TAB>"
Backslash == "\\"
DblQuote == "\""
Quote == "'"

DigitChars == {"0", "1", "2", "3", "4", "5", "6", "7", "8", "9"}
HexChars == DigitChars \cup {"a", "b", "c", "d", "e", "f"}
AlphaChars == {"a", "b", "c", "d", "e", "f", "n", "r", "t", "x"}
isdigit(ch) == ch \in DigitChars
isxdigit(ch) == ch \in HexChars
isalpha(ch) == ch \in AlphaChars
isalnum(ch) == isalpha(ch) \/ isdigit(ch)
isspace(ch) == ch = " "
DigitValue(ch) ==
  CASE ch = "0" -> 0 [] ch = "1" -> 1 [] ch = "2" -> 2 [] ch = "3" -> 3
    [] ch = "4" -> 4 [] ch = "5" -> 5 [] ch = "6" -> 6 [] ch = "7" -> 7
    [] ch = "8" -> 8 [] ch = "9" -> 9

\* ---- the stream: currentChar_, the stream's eofbit, get and peek
currentChar(L) == IF L.pos > Len(input) THEN EOFCHAR ELSE input[L.pos]
eof(L) == L.pos > Len(input) \/ L.eofbit
nextChar(L) ==
  IF L.pos > Len(input) THEN L
  ELSE [L EXCEPT !.pos = @ + 1, !.eofbit = @ \/ L.pos + 1 > Len(input)]
peekChar(L) == IF L.pos + 1 > Len(input) THEN EOFCHAR ELSE input[L.pos + 1]
Peeked(L) == [L EXCEPT !.eofbit = @ \/ L.pos + 1 > Len(input)]

SetToken(L, tok) == [L EXCEPT !.token = tok]
AppendChar(L, ch) == [L EXCEPT !.stringValue = Append(@, ch)]
tokenError(L) == [L EXCEPT !.report = Append(@, "TokenError")]

\* unescape (Lexer.cc)
RECURSIVE unescape(_)
unescape(value) ==
  IF value = <<>> THEN <<>>
  ELSE IF Head(value) # Backslash THEN <<Head(value)>> \o unescape(Tail(value))
  ELSE IF Tail(value) = <<>> THEN <<>>
  ELSE LET ch == value[2]
           out == CASE ch = Backslash -> Backslash
                    [] ch = "r" -> CR
                    [] ch = "n" -> LF
                    [] ch = "t" -> TAB
                    [] OTHER -> ch
       IN <<out>> \o unescape(Tail(Tail(value)))

\* The loop of Lexer::parseString
RECURSIVE parseStringLoop(_, _, _)
parseStringLoop(L, delim, last) ==
  IF ~eof(L) /\ (currentChar(L) # delim \/ last = Backslash)
    THEN parseStringLoop(AppendChar(nextChar(L), currentChar(L)), delim, currentChar(L))
    ELSE L

\* Lexer::parseString
parseString(L, result) ==
  LET delim == currentChar(L)
  IN The({ IF currentChar(L1) = delim THEN SetToken(nextChar(L1), result)
           ELSE SetToken(L1, "Unknown")
           : L1 \in {parseStringLoop([nextChar(L) EXCEPT !.stringValue = <<>>], delim, "none")} })

\* Lexer::parseRawString
parseRawString(L) ==
  The({ IF L1.token = "String" THEN [L1 EXCEPT !.stringValue = unescape(@)] ELSE L1
        : L1 \in {parseString(L, "String")} })

\* The loop of Lexer::parseInterpolationFragment
RECURSIVE fragmentLoop(_, _, _)
fragmentLoop(L, last, start) ==
  IF eof(L) THEN SetToken(L, "Eof")
  ELSE IF currentChar(L) = DblQuote /\ last # Backslash
    THEN SetToken([nextChar(L) EXCEPT !.interpolationDepth = @ - 1],
                  IF start THEN "String" ELSE "InterpolatedStringEnd")
  ELSE IF currentChar(L) = Backslash
    THEN LET L1 == nextChar(L)
             ch == currentChar(L1)
             out == CASE ch = "r" -> <<CR>>
                      [] ch = "n" -> <<LF>>
                      [] ch = "t" -> <<TAB>>
                      [] ch = Backslash -> <<Backslash>>
                      [] OTHER -> <<Backslash, ch>>
         IN IF eof(L1) THEN SetToken(L1, "Eof")
            ELSE fragmentLoop(nextChar([L1 EXCEPT !.stringValue = @ \o out]), ch, start)
  ELSE IF currentChar(L) = "#"
    THEN LET L1 == nextChar(L)
             ch == currentChar(L1)
         IN IF ch = "{" THEN SetToken(nextChar(L1), "InterpolatedStringFragment")
            ELSE fragmentLoop(nextChar([L1 EXCEPT !.stringValue = @ \o <<"#", ch>>]), ch, start)
  ELSE fragmentLoop(AppendChar(nextChar(L), currentChar(L)), currentChar(L), start)

\* Lexer::parseInterpolationFragment
parseInterpolationFragment(L, start) ==
  fragmentLoop([nextChar(L) EXCEPT !.stringValue = <<>>], "none", start)

\* ---- FlowNumber: a signed 64-bit integer, as four 16-bit limbs, least
\* significant first; arithmetic is modulo 2^64.
Limb == 65536
SignLimb == 32768
Zero64 == <<0, 0, 0, 0>>
IsNegative(x) == x[4] >= SignLimb

\* numberValue_ *= base; numberValue_ += digit.  `wrapped` tells whether
\* the signed arithmetic left the range of the type (undefined behaviour).
MulAdd(x, base, digit) ==
  LET t1 == x[1] * base + digit
      t2 == x[2] * base + t1 \div Limb
      t3 == x[3] * base + t2 \div Limb
      t4 == x[4] * base + t3 \div Limb
  IN [value |-> <<t1 % Limb, t2 % Limb, t3 % Limb, t4 % Limb>>,
      wrapped |-> t4 >= SignLimb]

SetNumber(L, r) == [L EXCEPT !.numberValue = r.value, !.wrapped = @ \/ r.wrapped]
Accumulate(L, base, ch) == SetNumber(L, MulAdd(L.numberValue, base, DigitValue(ch)))

\* numberValue_ > static_cast<FlowNumber>(range), for a range below 2^16
GreaterThan(x, range) ==
  ~IsNegative(x) /\ (x[4] > 0 \/ x[3] > 0 \/ x[2] > 0 \/ x[1] > range)

\* while (std::isdigit(currentChar())) { stringValue_ += ...; nextChar(); }
RECURSIVE digitsLoop(_)
digitsLoop(L) ==
  IF isdigit(currentChar(L)) THEN digitsLoop(nextChar(AppendChar(L, currentChar(L))))
  ELSE L

\* Lexer::consume(char): the character is skipped whether it matches or not.
Lexer_consume(L, ch) == [nextChar(L) EXCEPT !.rv = currentChar(L) = ch]

\* Lexer::continueCidr
RECURSIVE prefixLoop(_)
prefixLoop(L) ==
  IF isdigit(currentChar(L))
    THEN prefixLoop(nextChar(AppendChar(Accumulate(L, 10, currentChar(L)), currentChar(L))))
    ELSE L
continueCidr(L, range) ==
  LET L1 == nextChar(L)
  IN IF ~isdigit(currentChar(L1)) THEN SetToken(tokenError(L1), "Unknown")
     ELSE The({ IF GreaterThan(L2.numberValue, range) THEN SetToken(tokenError(L2), "Unknown")
                ELSE SetToken(L2, "Cidr")
                : L2 \in {prefixLoop([L1 EXCEPT !.numberValue = Zero64])} })

\* ---- IPv6 literals
\* Lexer::ipv6HexDigit4
RECURSIVE hexLoop(_, _)
hexLoop(L, i) ==
  IF isxdigit(currentChar(L)) THEN hexLoop(nextChar(AppendChar(L, currentChar(L))), i + 1)
  ELSE [L EXCEPT !.ipv6HexDigits = 0, !.rv = i >= 1 /\ i <= 4]
ipv6HexDigit4(L) == hexLoop(L, L.ipv6HexDigits)

\* currentChar() == ':' && peekChar() == what: peekChar is evaluated, and
\* touches the stream, only when the current character is a colon.
AtColon(L) == IF currentChar(L) = ":" THEN Peeked(L) ELSE L
ColonThenColon(L) == currentChar(L) = ":" /\ peekChar(L) = ":"
ColonThenOther(L) == currentChar(L) = ":" /\ peekChar(L) # ":"

\* Lexer::ipv6HexSeq
RECURSIVE hexSeqLoop(_)
hexSeqLoop(L) ==
  IF ColonThenOther(L)
    THEN The({ IF ~L1.rv THEN L1 ELSE hexSeqLoop(L1)
               : L1 \in {ipv6HexDigit4(nextChar(AppendChar(AtColon(L), ":")))} })
    ELSE [AtColon(L) EXCEPT !.rv = TRUE]
ipv6HexSeq(L) ==
  The({ IF ~L1.rv THEN L1 ELSE hexSeqLoop(L1) : L1 \in {ipv6HexDigit4(L)} })

\* "::" [ipv6HexSeq], entered at the first colon
AfterDblColon(L) ==
  LET L1 == nextChar(nextChar(L))
  IN IF isxdigit(currentChar(L1)) THEN ipv6HexSeq(L1) ELSE [L1 EXCEPT !.rv = TRUE]

\* Lexer::ipv6HexPart
\* [ "::" [ipv6HexSeq] ] after a hex sequence S
optDblColon(S) ==
  IF S.rv /\ ColonThenColon(S)
    THEN AfterDblColon([AtColon(S) EXCEPT !.stringValue = @ \o <<":", ":">>])
    ELSE IF S.rv THEN AtColon(S) ELSE S
ipv6HexPart(L) ==
  The({ IF isalnum(currentChar(L1)) \/ currentChar(L1) = ":"
          THEN [L1 EXCEPT !.rv = FALSE] ELSE L1
        : L1 \in {IF ColonThenColon(L)
                    THEN AfterDblColon([AtColon(L) EXCEPT !.stringValue = <<":", ":">>])
                    ELSE optDblColon(ipv6HexSeq(AtColon(L)))} })

\* IPAddress::set for Family::V6 (inet_pton): groups of one to four hex
\* digits separated by colons, at most one "::", eight groups without it
\* and at most seven with it; the last group may be a dotted quad.
RECURSIVE Split(_, _)
Split(text, sep) ==
  IF \A k \in 1..Len(text) : text[k] # sep THEN <<text>>
  ELSE LET k == CHOOSE j \in 1..Len(text) :
                  text[j] = sep /\ \A i \in 1..(j - 1) : text[i] # sep
       IN <<SubSeq(text, 1, k - 1)>> \o Split(SubSeq(text, k + 1, Len(text)), sep)
IsHexGroup(g) == Len(g) \in 1..4 /\ \A k \in 1..Len(g) : isxdigit(g[k])
IsDottedQuad(g) ==
  LET parts == Split(g, ".")
  IN Len(parts) = 4 /\ \A k \in 1..4 :
       Len(parts[k]) \in 1..3 /\ \A i \in 1..Len(parts[k]) : isdigit(parts[k][i])
ValidIPv6(text) ==
  LET groups == Split(text, ":")
      n == Len(groups)
      dbl == {k \in 1..(Len(text) - 1) : text[k] = ":" /\ text[k + 1] = ":"}
      full == {k \in 1..n : groups[k] # <<>>}
      quad == n >= 1 /\ IsDottedQuad(groups[n])
      count == Cardinality(full) + (IF quad THEN 1 ELSE 0)
  IN /\ text # <<>>
     /\ Cardinality(dbl) <= 1
     /\ text[1] = ":" => 1 \in dbl
     /\ text[Len(text)] = ":" => (Len(text) - 1) \in dbl
     /\ \A k \in full : IsHexGroup(groups[k]) \/ (k = n /\ quad)
     /\ IF dbl = {} THEN count = 8 ELSE count <= 7

\* Lexer::continueParseIPv6
RECURSIVE firstLoop(_)
firstLoop(L) ==
  IF ColonThenOther(L)
    THEN The({ IF ~L1.rv THEN [L1 EXCEPT !.token = "Unknown", !.returned = TRUE]
               ELSE firstLoop(L1)
               : L1 \in {ipv6HexDigit4(nextChar(AppendChar(AtColon(L), ":")))} })
    ELSE AtColon(L)
RECURSIVE quadLoop(_)
quadLoop(L) ==
  IF currentChar(L) = "." /\ isdigit(peekChar(L))
    THEN quadLoop(digitsLoop(nextChar(AppendChar(Peeked(L), "."))))
    ELSE IF currentChar(L) = "." THEN Peeked(L) ELSE L
\* Lexer::continueParseIPv6, after the hex part
ipv6Tail(L1) ==
  IF L1.returned THEN L1
  ELSE The({
    IF ~L2.rv THEN SetToken(L2, "Unknown")
    ELSE IF ~ValidIPv6(L2.stringValue) THEN SetToken(L2, "Unknown")
    ELSE IF currentChar(L2) # "/"
      THEN SetToken([L2 EXCEPT !.ipValue = [family |-> "V6", text |-> L2.stringValue]], "IP")
    ELSE continueCidr([L2 EXCEPT !.ipValue = [family |-> "V6", text |-> L2.stringValue]], 128)
    : L2 \in {quadLoop(L1)} })
\* Lexer::continueParseIPv6, the first component complete: after its loop
afterFirst(F) ==
  IF F.returned THEN F
  ELSE IF ColonThenColon(F)
    THEN AfterDblColon([AtColon(F) EXCEPT !.stringValue = @ \o <<":", ":">>])
  ELSE [AtColon(F) EXCEPT !.rv = TRUE]
continueParseIPv6(L, firstComplete) ==
  IF firstComplete
    THEN ipv6Tail(afterFirst(firstLoop([L EXCEPT !.returned = FALSE, !.rv = TRUE])))
    ELSE ipv6Tail(ipv6HexPart([L EXCEPT !.ipv6HexDigits = Len(L.stringValue),
                                        !.returned = FALSE]))

\* Lexer::parseNumber
RECURSIVE numberLoop(_, _)
numberLoop(L, base) ==
  IF isdigit(currentChar(L)) /\ DigitValue(currentChar(L)) < base
    THEN numberLoop(nextChar(AppendChar(Accumulate(L, base, currentChar(L)), currentChar(L))), base)
    ELSE L
\* Lexer::parseNumber, after the fourth component of an IPv4 literal
ipv4Tail(L6) ==
  IF currentChar(L6) # "/"
    THEN SetToken([L6 EXCEPT !.ipValue = [family |-> "V4", text |-> L6.stringValue]], "IP")
    ELSE continueCidr([L6 EXCEPT !.ipValue = [family |-> "V4", text |-> L6.stringValue]], 32)
\* Lexer::parseNumber, from the third component of an IPv4 literal on;
\* L3 and L5 are the lexer after consume('.')
ipv4Third(L3) ==
  IF ~L3.rv THEN SetToken(L3, "Unknown")
  ELSE The({ IF ~L5.rv THEN SetToken(L5, "Unknown")
             ELSE ipv4Tail(digitsLoop(AppendChar(L5, ".")))
             : L5 \in {Lexer_consume(digitsLoop(AppendChar(L3, ".")), ".")} })
parseNumber(L, base) ==
  The({
    IF Len(L1.stringValue) <= 4 /\ currentChar(L1) = ":" THEN continueParseIPv6(L1, TRUE)
    ELSE IF Len(L1.stringValue) < 4 /\ isxdigit(currentChar(L1)) THEN continueParseIPv6(L1, FALSE)
    ELSE IF currentChar(L1) # "." THEN SetToken(L1, "Number")
    ELSE ipv4Third(Lexer_consume(digitsLoop(nextChar(AppendChar(L1, "."))), "."))
    : L1 \in {numberLoop([L EXCEPT !.stringValue = <<>>, !.numberValue = Zero64], base)} })

\* Lexer::parseIdent.  No keyword can be written with the letters of
\* AlphaChars, so the keyword table is never hit.
RECURSIVE identLoop(_, _)
identLoop(L, isHex) ==
  IF isalnum(currentChar(L)) \/ currentChar(L) = "_" \/ currentChar(L) = "."
    THEN identLoop(nextChar(AppendChar(L, currentChar(L))), isHex /\ isxdigit(currentChar(L)))
    ELSE [L EXCEPT !.rv = isHex]
Lexer_parseIdent(L) ==
  The({
    LET isHex == L1.rv
    IN IF currentChar(L1) = ":" /\ ~isHex THEN SetToken(nextChar(L1), "NamedParam")
       ELSE IF Len(L1.stringValue) <= 4 /\ isHex /\ currentChar(L1) = ":"
         THEN continueParseIPv6(L1, TRUE)
       ELSE IF Len(L1.stringValue) < 4 /\ isHex /\ isxdigit(currentChar(L1))
         THEN continueParseIPv6(L1, FALSE)
       ELSE SetToken(L1, "Ident")
    : L1 \in {identLoop(nextChar([L EXCEPT !.stringValue = <<currentChar(L)>>]),
                        isxdigit(currentChar(L)))} })

\* Lexer::consumeSpace: rv is false when the end of the stream is reached.
\* The streams have one line, so a comment runs to their end.
RECURSIVE spaceLoop(_)
spaceLoop(L) == IF ~eof(L) /\ isspace(currentChar(L)) THEN spaceLoop(nextChar(L)) ELSE L
RECURSIVE commentLoop(_)
commentLoop(L) == IF eof(L) THEN L ELSE commentLoop(nextChar(L))
consumeSpace(L) ==
  The({
    IF eof(L1) THEN [L1 EXCEPT !.rv = FALSE]
    ELSE IF currentChar(L1) = "#"
      THEN [SetToken(commentLoop(nextChar(L1)), "Eof") EXCEPT !.rv = FALSE]
    ELSE IF currentChar(L1) = "/" THEN [Peeked(L1) EXCEPT !.rv = TRUE]
    ELSE [L1 EXCEPT !.rv = TRUE]
    : L1 \in {spaceLoop(L)} })

\* Lexer::nextToken, after consumeSpace
switchToken(L1) ==
  LET ch == currentChar(L1)
  IN IF ~L1.rv THEN SetToken(L1, "Eof")
     ELSE CASE ch = ":" ->
                 IF peekChar(L1) = ":"
                   THEN continueParseIPv6([Peeked(L1) EXCEPT !.stringValue = <<>>], FALSE)
                   ELSE SetToken(nextChar(Peeked(L1)), "Colon")
            [] ch = ";" -> SetToken(nextChar(L1), "Semicolon")
            [] ch = "{" -> SetToken(nextChar(L1), "Begin")
            [] ch = "}" ->
                 IF L1.interpolationDepth # 0 THEN parseInterpolationFragment(L1, FALSE)
                 ELSE SetToken(nextChar(L1), "End")
            [] ch = "/" -> SetToken(nextChar(L1), "Div")
            [] ch = "." ->
                 LET L2 == nextChar(L1)
                     L3 == nextChar(L2)
                 IN IF currentChar(L2) # "." THEN SetToken(L2, "Period")
                    ELSE IF currentChar(L3) # "." THEN SetToken(L3, "DblPeriod")
                    ELSE SetToken(nextChar(L3), "Ellipsis")
            [] ch = Quote -> parseRawString(L1)
            [] ch = DblQuote ->
                 parseInterpolationFragment([L1 EXCEPT !.interpolationDepth = @ + 1], TRUE)
            [] ch = "0" -> parseNumber(L1, 8)
            [] isdigit(ch) /\ ch # "0" -> parseNumber(L1, 10)
            [] OTHER ->
                 IF isalpha(ch) \/ ch = "_" THEN Lexer_parseIdent(L1)
                 ELSE SetToken(nextChar(tokenError(L1)), "Unknown")

\* Lexer::nextToken
Lexer_nextToken(L) == switchToken(consumeSpace(L))

\* ---- the streams handed to the lexer
\* A string body is written from pieces: an ordinary character, a `#`
\* (never before `{`), an escaped backslash, an escaped n.
Pieces == {"a", "#", "bs", "nl"}
PieceText(piece) ==
  CASE piece = "a" -> <<"a">>
    [] piece = "#" -> <<"#">>
    [] piece = "bs" -> <<Backslash, Backslash>>
    [] piece = "nl" -> <<Backslash, "n">>
PieceValue(piece) ==
  CASE piece = "a" -> "a" [] piece = "#" -> "#" [] piece = "bs" -> Backslash [] piece = "nl" -> LF
StringBodies == UNION { [1..n -> Pieces] : n \in 0..MaxBody }

\* 2^63 - 1, 2^64, and the prefixes at the ends of the two ranges.
DigitSeeds ==
  {<<"9","2","2","3","3","7","2","0","3","6","8","5","4","7","7","5","8","0","7">>,
   <<"1","8","4","4","6","7","4","4","0","7","3","7","0","9","5","5","1","6","1","6">>,
   <<"3","2">>, <<"1","2","8">>}
DigitStrings ==
  { SubSeq(seed, 1, IF n <= Len(seed) THEN n ELSE Len(seed)) \o <<d>> :
      seed \in DigitSeeds, n \in 0..(MaxDigits - 1), d \in DigitChars }
IPTexts ==
  {[family |-> "V4", text |-> <<"1","0",".","0",".","0",".","0">>],
   [family |-> "V6", text |-> <<":",":","1">>],
   [family |-> "V6", text |-> <<"1",":",":">>],
   [family |-> "V6", text |-> <<"f","e","8","0",":",":","1">>]}
OtherTexts ==
  {<<"1",".","2",";">>, <<"1",".","2",".","3",";">>, <<"1",".","2",".","3",".","4",";">>,
   <<"1",":","2",";">>, <<"1",":",":",":","2",";">>, <<":",":",";">>, <<":",":","1">>,
   <<Quote,"a",";">>, <<DblQuote,"a",";">>, <<"@",";">>, <<" ",";","#","a">>,
   <<"1","0",".","0",".","0",".","0","/","x",";">>, <<":",":","1","/",";">>,
   <<"a","x",";">>, <<".",".",";">>, <<"0","1","7",";">>, <<"0","8",";">>}

NoCase == [kind |-> "none", delim |-> "", pieces |-> <<>>, family |-> "", digits |-> <<>>]
LexCases ==
  { [NoCase EXCEPT !.kind = "string", !.delim = q, !.pieces = body] :
      q \in {Quote, DblQuote}, body \in StringBodies }
  \cup { [NoCase EXCEPT !.kind = "number", !.digits = ds] :
           ds \in {x \in DigitStrings : x[1] # "0"} }
  \cup { [NoCase EXCEPT !.kind = "cidr", !.family = ip.family, !.pieces = ip.text, !.digits = ds] :
           ip \in IPTexts, ds \in DigitStrings }
  \cup { [NoCase EXCEPT !.kind = "other", !.pieces = text] : text \in OtherTexts }
CaseText(c) ==
  CASE c.kind = "string" ->
         <<c.delim>> \o Flatten([k \in 1..Len(c.pieces) |-> PieceText(c.pieces[k])])
           \o <<c.delim, ";">>
    [] c.kind = "number" -> c.digits \o <<";">>
    [] c.kind = "cidr" -> c.pieces \o <<"/">> \o c.digits \o <<";">>
    [] c.kind = "other" -> c.pieces
    [] OTHER -> <<>>

\* The lexer after Lexer::Lexer and enterScope: the first character read.
NewLexer ==
  [pos |-> 1, eofbit |-> FALSE, token |-> "Eof", stringValue |-> <<>>,
   numberValue |-> Zero64, ipValue |-> [family |-> "", text |-> <<>>],
   ipv6HexDigits |-> 0, interpolationDepth |-> 0, report |-> <<>>,
   rv |-> FALSE, returned |-> FALSE, wrapped |-> FALSE]

LexInit ==
  /\ lexCase \in LexCases
  /\ input = CaseText(lexCase)
  /\ lexer = NewLexer
  /\ tokens = <<>>
  /\ lpc = "lexing"

LexIdle ==
  /\ lexCase = NoCase
  /\ input = <<>>
  /\ lexer = NewLexer
  /\ tokens = <<>>
  /\ lpc = "lexing"

\* One call of Lexer::nextToken (the first one is made by openStream).
\* Signed overflow of numberValue_ is undefined: the value wraps, or the
\* build traps and the call never returns.
NextToken ==
  /\ lpc = "lexing"
  /\ \E L \in {Lexer_nextToken([lexer EXCEPT !.wrapped = FALSE])} :
       LET returnedToken ==
             [token |-> L.token, stringValue |-> L.stringValue,
              numberValue |-> L.numberValue,
              errors |-> Len(L.report) - Len(lexer.report),
              begin |-> spaceLoop(lexer).pos, wrapped |-> L.wrapped]
       IN
        /\ lexer' = L
        /\ \/ /\ tokens' = Append(tokens, returnedToken)
              /\ lpc' = IF L.token = "Eof" THEN "eof" ELSE "lexing"
           \/ /\ L.wrapped
              /\ lpc' = "trapped"
              /\ UNCHANGED tokens
  /\ UNCHANGED <<lexCase, input>>

(***************************************************************************)
(*                            Parser::resolve                              *)
(***************************************************************************)
\* A callee is known by how the call's arguments match its signature
\* (CallableSym::isDirectMatch, CallableSym::tryMatch) and by whether its
\* native callback is experimental.  An exact match is also a tolerant one.
Callees_ ==
  { c \in [direct : BOOLEAN, tolerant : BOOLEAN, experimental : BOOLEAN] :
      c.direct => c.tolerant }
CallableLists == UNION { [1..n -> Callees_] : n \in 1..MaxCallables }

Indices(cs, Match(_)) == {k \in 1..Len(cs) : Match(cs[k])}
IsDirect(c) == c.direct
IsTolerant(c) == c.tolerant
IsMismatch(c) == ~c.tolerant
First(set) == CHOOSE k \in set : \A j \in set : k <= j
Diagnostic(type, text) == [type |-> type, text |-> text]
MatchErrors(cs) ==
  [k \in 1..Cardinality(Indices(cs, IsMismatch)) |-> Diagnostic("TypeError", "match error")]

\* The second part of Parser::resolve: the candidates tryMatch accepts.
tolerantMatch(cs) ==
  LET result == Indices(cs, IsTolerant)
  IN IF result = {}
       THEN [ret |-> NullPtr,
             report |-> <<Diagnostic("TypeError", "No matching signature")>> \o MatchErrors(cs)]
     ELSE IF Cardinality(result) > 1
       THEN [ret |-> NullPtr,
             report |-> <<Diagnostic("TypeError", "Call to builtin is ambiguous")>>]
     ELSE [ret |-> Ptr(First(result)),
           report |-> IF cs[First(result)].experimental
                        THEN <<Diagnostic("Warning", "Using experimental builtin API")>>
                        ELSE <<>>]

\* Parser::resolve without its first loop: an exact match is one candidate
\* among the tolerant ones.
resolve_NoExactPass(cs) == tolerantMatch(cs)

\* Parser::resolve: the callee of the CallExpr, or null, and the diagnostics.
resolve(cs) ==
  IF Indices(cs, IsDirect) # {}
    THEN [ret |-> Ptr(First(Indices(cs, IsDirect))), report |-> <<>>]
    ELSE tolerantMatch(cs)

NotResolved == [ret |-> NullPtr, report |-> <<>>, called |-> FALSE]

ResolveInit ==
  /\ callables \in CallableLists
  /\ resolved = NotResolved

ResolveIdle ==
  /\ callables = <<>>
  /\ resolved = NotResolved

\* The call of Parser::resolve made by Parser::callStmt.
Resolve ==
  /\ ~resolved.called
  /\ resolved' = [ret |-> resolve(callables).ret, report |-> resolve(callables).report,
                  called |-> TRUE]
  /\ UNCHANGED callables

(***************************************************************************)
(*                              util::Cidr                                 *)
(***************************************************************************)
\* An address is its bytes in network order, as inet_pton stores them.
\* A 32-bit word is its 32 value bits, most significant first.
Bits8(byte) == [k \in 1..8 |-> (byte \div 2^(8 - k)) % 2]

\* *(uint32_t*)(data + 4*(w-1)) on a host of the given byte order.
LoadWord(data, w, le) ==
  LET b(i) == Bits8(data[4 * (w - 1) + i])
  IN IF le THEN b(4) \o b(3) \o b(2) \o b(1) ELSE b(1) \o b(2) \o b(3) \o b(4)

\* 0xFFFFFFFF >> count.  A count of the width of the type is undefined:
\* the hardware either takes the count modulo 32 or shifts everything out.
ShiftMask(count) == [k \in 1..32 |-> IF k <= count THEN 0 ELSE 1]
ShiftMasks(count) ==
  IF count < 32 THEN {ShiftMask(count)} ELSE {ShiftMask(0), ShiftMask(32)}
BitAnd(a, b) == [k \in 1..32 |-> a[k] * b[k]]

\* The IPv6 part of Cidr::contains from word w on, with `bits` bits left.
RECURSIVE containsV6(_, _, _, _, _)
containsV6(c, ip, le, w, bits) ==
  IF bits >= 32
    THEN IF LoadWord(c.data, w, le) # LoadWord(ip.data, w, le) THEN {FALSE}
         ELSE containsV6(c, ip, le, w + 1, bits - 32)
  ELSE IF 4 * w > Len(c.data) THEN BOOLEAN   \* reads past both addresses
  ELSE { BitAnd(LoadWord(c.data, w, le), m) = LoadWord(ip.data, w, le) :
           m \in ShiftMasks(32 - bits) }

\* Cidr::contains: the values the call can return.
Cidr_contains(c, ip, le) ==
  IF ip.family # c.family THEN {FALSE}
  ELSE IF ip.family = "V4"
    THEN { BitAnd(LoadWord(ip.data, 1, le), m) = LoadWord(c.data, 1, le) :
             m \in ShiftMasks(32 - c.prefix) }
  ELSE containsV6(c, ip, le, 1, c.prefix)

\* ---- the addresses and prefixes contains is called with
V4Addresses ==
  {<<0, 0, 0, 0>>, <<10, 0, 0, 0>>, <<10, 0, 0, 5>>, <<10, 0, 1, 5>>,
   <<10, 128, 0, 0>>, <<128, 0, 0, 1>>, <<255, 255, 255, 255>>}
Zeros(n) == [k \in 1..n |-> 0]
V6Addresses ==
  {Zeros(16), Zeros(15) \o <<1>>, <<32, 1, 13, 184>> \o Zeros(12),
   <<32, 1, 13, 184>> \o Zeros(11) \o <<1>>, <<32, 1, 13, 184, 128>> \o Zeros(11),
   [k \in 1..16 |-> 255]}
IPAddresses ==
  [family : {"V4"}, data : V4Addresses] \cup [family : {"V6"}, data : V6Addresses]
AddressBits(ip) == 8 * Len(ip.data)
Cidrs ==
  { [family |-> ip.family, data |-> ip.data, prefix |-> p] :
      ip \in IPAddresses, p \in 0..128 } \ { c \in [family : {"V4"}, data : V4Addresses, prefix : 0..128] : c.prefix > 32 }

CidrInit ==
  /\ cidr \in Cidrs
  /\ ipaddr \in IPAddresses
  /\ littleEndian \in BOOLEAN
  /\ contained = "none"

CidrIdle ==
  /\ cidr = [family |-> "V4", data |-> <<0, 0, 0, 0>>, prefix |-> 0]
  /\ ipaddr = [family |-> "V4", data |-> <<0, 0, 0, 0>>]
  /\ littleEndian = TRUE
  /\ contained = "none"

\* A call cidr.contains(ipaddr).
Contains ==
  /\ contained = "none"
  /\ \E result \in Cidr_contains(cidr, ipaddr, littleEndian) :
       contained' = IF result THEN "true" ELSE "false"
  /\ UNCHANGED <<cidr, ipaddr, littleEndian>>

(***************************************************************************)
(*                         vm::Handler::setCode                            *)
(***************************************************************************)
\* The instruction sequences setCode is called with.
Codes == UNION { [1..n -> {NOP, JMP1, EXIT0, EXIT1}] : n \in 0..MaxCode }

\* Handler::setCode on any vector.  code_.back() of an empty vector reads
\* no element of the vector: what it yields is not defined.  The call may
\* find the opcode EXIT there and leave the code empty, find another opcode
\* and append the EXIT, or fault ("crashed").
Handler_setCode(code) ==
  IF code = <<>>
    THEN {[code |-> <<>>, pc |-> "set"],
          [code |-> <<makeInstruction("EXIT", 0)>>, pc |-> "set"],
          [code |-> <<>>, pc |-> "crashed"]}
    ELSE {[code |-> setCode(code), pc |-> "set"]}

HandlerInit ==
  /\ hinput = <<>>
  /\ code_ = <<>>
  /\ hpc = "new"

HandlerIdle == HandlerInit

\* A call handler.setCode(code), also the one of the constructor.
SetCode ==
  /\ hpc # "crashed"
  /\ \E code \in Codes :
       /\ hinput' = code
       /\ \E out \in Handler_setCode(code) :
            /\ code_' = out.code
            /\ hpc' = out.pc

(***************************************************************************)
(*                  Runners sharing the Handler of a Program               *)
(***************************************************************************)
RunnerIds == {1, 2}
\* The entry of directThreadedCode_ for an instruction: the address of the
\* label that executes its opcode.  Unset is an entry the resize created and
\* that no label was stored to yet.
Unset == "unset"
LabelOf(instr) == opcode(instr)

\* Runner::run, entry.  Built for direct threading, the Runner that finds
\* the handler's directThreadedCode empty resizes it and then fills it from
\* the bytecode; every other Runner starts dispatching.
RunnerStart(r) ==
  /\ runners[r].state = "new"
  /\ IF build = "direct" /\ shared.directThreadedCode_ = <<>>
       THEN /\ shared' = [shared EXCEPT !.directThreadedCode_ =
                                          [k \in 1..Len(shared.code_) |-> Unset]]
            /\ runners' = [runners EXCEPT ![r].state = "threading", ![r].k = 1]
       ELSE /\ runners' = [runners EXCEPT ![r].state = "running",
                                          ![r].run = NewRunner("main", shared.code_, NoQuota)]
            /\ UNCHANGED shared
  /\ UNCHANGED build

\* Runner::run, one entry of the conversion to direct-threaded code.
Thread(r) ==
  /\ runners[r].state = "threading"
  /\ shared' = [shared EXCEPT !.directThreadedCode_[runners[r].k] =
                                LabelOf(shared.code_[runners[r].k])]
  /\ runners' = IF runners[r].k = Len(shared.code_)
                  THEN [runners EXCEPT ![r].state = "running",
                                       ![r].run = NewRunner("main", shared.code_, NoQuota)]
                  ELSE [runners EXCEPT ![r].k = @ + 1]
  /\ UNCHANGED build

\* Runner::run, one dispatch.  The direct-threaded loop jumps to the entry
\* of the table; an entry that is not stored yet is no label.
RunnerDispatch(r) ==
  /\ runners[r].state = "running"
  /\ runners[r].run.state = "Running"
  /\ runners[r].run.count < MaxDispatch
  /\ runners' =
       IF build = "direct" /\ shared.directThreadedCode_[runners[r].run.ip] = Unset
         THEN [runners EXCEPT ![r].state = "faulted"]
         ELSE [runners EXCEPT ![r].run = RunnerStep(runners[r].run)]
  /\ UNCHANGED <<build, shared>>

NewThread == [state |-> "new", k |-> 0, run |-> IdleRunner]

\* A linked program with the handler main, not executed yet.
ThreadInit ==
  /\ build \in {"switch", "direct"}
  /\ \E body \in Bodies : shared = [code_ |-> setCode(body), directThreadedCode_ |-> <<>>]
  /\ runners = [r \in RunnerIds |-> NewThread]

ThreadIdle ==
  /\ build = "switch"
  /\ shared = [code_ |-> <<>>, directThreadedCode_ |-> <<>>]
  /\ runners = [r \in RunnerIds |-> NewThread]

(***************************************************************************)
(*          lang::Interpreter: run calls, globals and native calls         *)
(***************************************************************************)
\* Instructions with an effect outside the Runner: CALL invokes the native
\* callback whose id is the immediate (1 a procedure, 2 a function), GSTORE stores the immediate to the
\* global variable of the unit, GEXIT exits with whether the global
\* variable holds 1.
CALL(id) == makeInstruction("CALL", id)
GSTORE(value) == makeInstruction("GSTORE", value)
GEXIT == makeInstruction("GEXIT", 0)

\* Compiled programs: handler name |-> code.  A unit with a global variable
\* has the handler @__global_init__ .
Programs ==
  { [main |-> <<CALL(1), EXIT1>>],
    [main |-> <<CALL(1), EXIT1>>,
     init |-> <<CALL(2), GSTORE(1), EXIT0>>],
    [main |-> <<GSTORE(2), CALL(1), EXIT1>>,
     init |-> <<GSTORE(1), EXIT0>>],
    [main |-> <<NOP, GEXIT>>,
     init |-> <<GSTORE(1), EXIT0>>] }
HandlerOf(prog, name) ==
  IF name = GLOBAL_SCOPE_INIT_NAME
    THEN IF "init" \in DOMAIN prog THEN Ptr(prog.init) ELSE NullPtr
  ELSE IF name = "main" THEN Ptr(prog.main)
  ELSE NullPtr

\* One dispatch of a Runner together with its effect on the globals and on
\* the native callbacks: st is [run, globals, trace].  An instruction the
\* quota stops is not executed.
DispatchWithEffects(st) ==
  LET i == st.run.code[st.run.ip]
      next == RunnerStep(st.run)
  IN IF next.state = "QuotaExceeded" THEN [st EXCEPT !.run = next]
     ELSE CASE opcode(i) = "CALL" ->
                 [st EXCEPT !.run = next, !.trace = Append(@, i.a)]
            [] opcode(i) = "GSTORE" ->
                 [st EXCEPT !.run = next, !.globals = i.a]
            [] opcode(i) = "GEXIT" ->
                 [st EXCEPT !.run = [next EXCEPT !.state = "Exited",
                                                 !.result = (st.globals = 1)]]
            [] OTHER -> [st EXCEPT !.run = next]

\* Runner{handler, userdata, &globals_, quota, trace}.run()
RECURSIVE Runner_run(_)
Runner_run(st) ==
  IF st.run.state # "Running" THEN st ELSE Runner_run(DispatchWithEffects(st))

\* Interpreter::run(handlerName, userdata, quota, trace) on the interpreter
\* I: the state after the initialiser, then the requested handler.
AfterGlobalInit(I) ==
  IF ~I.initialized_ /\ HandlerOf(I.program_, GLOBAL_SCOPE_INIT_NAME) # NullPtr
    THEN Runner_run([run |-> NewRunner(GLOBAL_SCOPE_INIT_NAME,
                                       Deref(HandlerOf(I.program_, GLOBAL_SCOPE_INIT_NAME)),
                                       NoQuota),
                     globals |-> I.globals_, trace |-> <<>>])
    ELSE [run |-> IdleRunner, globals |-> I.globals_, trace |-> <<>>]
Interpreter_run(I, handlerName, quota) ==
  The({
    IF HandlerOf(I.program_, handlerName) = NullPtr
      THEN [st EXCEPT !.run = [IdleRunner EXCEPT !.result = FALSE]]
      ELSE Runner_run([st EXCEPT !.run = NewRunner(handlerName,
                                           Deref(HandlerOf(I.program_, handlerName)),
                                           quota)])
    : st \in {AfterGlobalInit(I)} })

\* A new Interpreter: nothing compiled, no global stored.
RunInit ==
  /\ host = [program_ |-> NullPtr, initialized_ |-> FALSE, globals_ |-> 0, compiles |-> 0]
  /\ runLog = <<>>

RunIdle == RunInit

\* A successful Interpreter::compile: the program is replaced and
\* initialized_ reset; globals_ stays as the runs so far left it.
CompileProgram ==
  /\ host.compiles < MaxCompiles
  /\ \E prog \in Programs :
       host' = [host EXCEPT !.program_ = Ptr(prog), !.initialized_ = FALSE,
                            !.compiles = @ + 1]
  /\ UNCHANGED runLog

\* A call of Interpreter::run, to its return.
RunHandler ==
  /\ host.program_ # NullPtr
  /\ Len(runLog) < MaxRuns
  /\ \E handlerName \in {"main", "other"}, quota \in {NoQuota, 1} :
       \E st \in {Interpreter_run([host EXCEPT !.program_ = Deref(@)], handlerName, quota)} :
         /\ host' = [host EXCEPT !.initialized_ = TRUE, !.globals_ = st.globals]
         /\ runLog' = Append(runLog,
                             [program |-> host.compiles, handler |-> handlerName,
                              quota |-> quota, globals |-> host.globals_,
                              initialized |-> host.initialized_,
                              result |-> st.run.result, trace |-> st.trace])

(***************************************************************************)
(*            diagnostics::BufferedReport, Tester::testFile                *)
(***************************************************************************)
\* diagnostics::Message: type, source location (file name and begin) and
\* text.
Messages ==
  [type : {"TypeError", "Warning"}, filename : {"a.flow", "b.flow"},
   begin : {1, 2}, text : {"t"}]

\* Message::operator== ignores the file name and the end of the location.
Message_eq(m, other) ==
  /\ m.type = other.type
  /\ m.begin = other.begin
  /\ m.text = other.text

\* BufferedReport::operator==
BufferedReport_eq(first, second) ==
  IF Len(first) # Len(second) THEN FALSE
  ELSE \A i \in 1..Len(first) : Message_eq(first[i], second[i])

\* BufferedReport::contains
BufferedReport_contains(messages, message) ==
  \E k \in 1..Len(messages) : Message_eq(messages[k], message)

\* The messages of `from`, in order, that `other` does not contain.
RECURSIVE NotContained(_, _)
NotContained(from, other) ==
  IF from = <<>> THEN <<>>
  ELSE (IF BufferedReport_contains(other, Head(from)) THEN <<>> ELSE <<Head(from)>>)
       \o NotContained(Tail(from), other)

\* diagnostics::difference
difference(first, second) ==
  [first |-> NotContained(first, second), second |-> NotContained(second, first)]

\* reportError("Missing: {}", m) / reportError("Superfluous: {}", m)
ErrorsOf(kind, messages) == [k \in 1..Len(messages) |-> <<kind, messages[k]>>]

\* Tester::testFile, ec being whether parsing the expectations failed.
Tester_testFile(ec) ==
  IF ec THEN [ret |-> FALSE, parsed |-> FALSE, errors |-> <<<<"Parse Error">>>>]
  ELSE The({ [ret |-> BufferedReport_eq(actual, expected), parsed |-> TRUE,
              errors |-> ErrorsOf("Missing", diff.first)
                         \o ErrorsOf("Superfluous", diff.second)]
             : diff \in {difference(actual, expected)} })

ReportInit ==
  /\ actual = <<>>
  /\ expected = <<>>
  /\ tested = NullPtr

ReportIdle == ReportInit

\* BufferedReport::push_back on the report of the compilation.
PushActual ==
  /\ tested = NullPtr
  /\ Len(actual) < MaxMessages
  /\ \E msg \in Messages : actual' = Append(actual, msg)
  /\ UNCHANGED <<expected, tested>>

\* BufferedReport::push_back on the report of the expectations.
PushExpected ==
  /\ tested = NullPtr
  /\ Len(expected) < MaxMessages
  /\ \E msg \in Messages : expected' = Append(expected, msg)
  /\ UNCHANGED <<actual, tested>>

TestFile ==
  /\ tested = NullPtr
  /\ \E ec \in BOOLEAN : tested' = Ptr(Tester_testFile(ec))
  /\ UNCHANGED <<actual, expected>>

(***************************************************************************)
(*      makeOperator (Parser.cc) and IRGenerator::accept of operators      *)
(***************************************************************************)
LiteralTypes == {"Boolean", "Number", "String", "IPAddress", "Cidr", "RegExp"}

\* The operand signature makeOperator derives from the two operand types.
OpSigOf(leftType, rightType) ==
  CASE leftType = "Boolean" /\ rightType = "Boolean" -> "BoolBool"
    [] leftType = "Number" /\ rightType = "Number" -> "NumNum"
    [] leftType = "String" /\ rightType = "String" -> "StringString"
    [] leftType = "String" /\ rightType = "RegExp" -> "StringRegexp"
    [] leftType = "IPAddress" /\ rightType = "IPAddress" -> "IpIp"
    [] leftType = "IPAddress" /\ rightType = "Cidr" -> "IpCidr"
    [] leftType = "Cidr" /\ rightType = "Cidr" -> "CidrCidr"
    [] OTHER -> "Invalid"

\* The table `ops` of makeOperator(Token, Expr*, Expr*).
BinaryOps ==
  { <<"BoolBool", "Equal", "NCMPEQ">>, <<"BoolBool", "UnEqual", "NCMPNE">>,
    <<"BoolBool", "And", "BAND">>, <<"BoolBool", "Or", "BOR">>,
    <<"BoolBool", "Xor", "BXOR">>,
    <<"NumNum", "Plus", "NADD">>, <<"NumNum", "Minus", "NSUB">>,
    <<"NumNum", "Mul", "NMUL">>, <<"NumNum", "Div", "NDIV">>,
    <<"NumNum", "Mod", "NREM">>, <<"NumNum", "Pow", "NPOW">>,
    <<"NumNum", "Shl", "NSHL">>, <<"NumNum", "Shr", "NSHR">>,
    <<"NumNum", "BitAnd", "NAND">>, <<"NumNum", "BitOr", "NOR">>,
    <<"NumNum", "BitXor", "NXOR">>,
    <<"NumNum", "Equal", "NCMPEQ">>, <<"NumNum", "UnEqual", "NCMPNE">>,
    <<"NumNum", "LessOrEqual", "NCMPLE">>, <<"NumNum", "GreaterOrEqual", "NCMPGE">>,
    <<"NumNum", "Less", "NCMPLT">>, <<"NumNum", "Greater", "NCMPGT">>,
    <<"StringString", "Plus", "SADD">>,
    <<"StringString", "Equal", "SCMPEQ">>, <<"StringString", "UnEqual", "SCMPNE">>,
    <<"StringString", "LessOrEqual", "SCMPLE">>,
    <<"StringString", "GreaterOrEqual", "SCMPGE">>,
    <<"StringString", "Less", "SCMPLT">>, <<"StringString", "Greater", "SCMPGT">>,
    <<"StringString", "PrefixMatch", "SCMPBEG">>,
    <<"StringString", "SuffixMatch", "SCMPEND">>,
    <<"StringString", "In", "SCONTAINS">>,
    <<"StringRegexp", "RegexMatch", "SREGMATCH">>,
    <<"IpIp", "Equal", "PCMPEQ">>, <<"IpIp", "UnEqual", "PCMPNE">>,
    <<"IpCidr", "In", "PINCIDR">>,
    <<"CidrCidr", "Equal", "NOP">>, <<"CidrCidr", "UnEqual", "NOP">>,
    <<"CidrCidr", "In", "NOP">> }

\* The table `ops` of makeOperator(Token, Expr*): source type, target, opcode.
UnaryOps ==
  { <<"Number", "Not", "NCMPZ">>, <<"Number", "BitNot", "NNOT">>,
    <<"Number", "Minus", "NNEG">>, <<"Number", "StringType", "N2S">>,
    <<"Number", "BoolType", "NCMPZ">>, <<"Number", "NumberType", "NOP">>,
    <<"Boolean", "Not", "BNOT">>, <<"Boolean", "BoolType", "NOP">>,
    <<"Boolean", "StringType", "N2S">>,
    <<"String", "Not", "SISEMPTY">>, <<"String", "NumberType", "S2N">>,
    <<"String", "StringType", "NOP">>,
    <<"IPAddress", "StringType", "P2S">>,
    <<"Cidr", "StringType", "C2S">>,
    <<"RegExp", "StringType", "R2S">> }

\* Both makeOperator overloads end the same way: the entry of the key and
\* the token, or EXIT.
OpFind(table, key, tok) ==
  The({ IF hits = {} THEN "EXIT" ELSE The(hits)[3]
        : hits \in {{ e \in table : e[1] = key /\ e[2] = tok }} })
makeOperatorBinary(tok, leftType, rightType) ==
  OpFind(BinaryOps, OpSigOf(leftType, rightType), tok)
makeOperatorUnary(target, sourceType) == OpFind(UnaryOps, sourceType, target)

\* The operator tokenens the expression rules hand to makeOperator:
\* logicExpr, relExpr, addExpr, mulExpr and powExpr.
BinaryTokens ==
  {"And", "Xor", "Or"} \cup
  {"Equal", "UnEqual", "Less", "Greater", "LessOrEqual", "GreaterOrEqual",
   "PrefixMatch", "SuffixMatch", "RegexMatch", "In"} \cup
  {"Plus", "Minus"} \cup {"Mul", "Div", "Mod", "Shl", "Shr"} \cup {"Pow"}
\* notExpr, negExpr and bitNotExpr.
UnaryTokens == {"Not", "Minus", "BitNot"}
\* castExpr.
CastTokens == {"StringType", "NumberType", "BoolType"}

OpExpr(kind, op, left, right) ==
  [kind |-> kind, op |-> op, left |-> left, right |-> right]
Parsed(rule, tok, ast, report) ==
  [rule |-> rule, token |-> tok, ret |-> ast, report |-> report]

\* The binary rules: an EXIT opcode is a type error, any other opcode
\* becomes a BinaryExpr.
binaryRule(binop, leftType, rightType) ==
  The({ IF opc = "EXIT"
          THEN Parsed("binary", binop, NullPtr, <<"TypeError">>)
          ELSE Parsed("binary", binop,
                      Ptr(OpExpr("BinaryExpr", opc, leftType, rightType)), <<>>)
        : opc \in {makeOperatorBinary(binop, leftType, rightType)} })

\* notExpr (odd number of nots), negExpr, bitNotExpr.
unaryRule(tok, subType) ==
  The({ IF op = "EXIT"
          THEN Parsed("unary", tok, NullPtr, <<"TypeError">>)
          ELSE Parsed("unary", tok, Ptr(OpExpr("UnaryExpr", op, subType, "")), <<>>)
        : op \in {makeOperatorUnary(tok, subType)} })

\* Parser::castExpr: a NOP cast returns the operand itself.
castExpr(targetTypeToken, subType) ==
  The({ IF targetType = "EXIT"
          THEN Parsed("cast", targetTypeToken, NullPtr, <<"TypeError">>)
        ELSE IF targetType = "NOP"
          THEN Parsed("cast", targetTypeToken,
                      Ptr(OpExpr("LiteralExpr", "NOP", subType, "")), <<>>)
        ELSE Parsed("cast", targetTypeToken,
                    Ptr(OpExpr("UnaryExpr", targetType, subType, "")), <<>>)
        : targetType \in {makeOperatorUnary(targetTypeToken, subType)} })

\* The opcodes IRGenerator::accept(UnaryExpr&) has a generator for.
UnaryGenerators ==
  {"N2S", "P2S", "C2S", "R2S", "S2N", "NNEG", "NNOT", "BNOT", "SLEN"}
\* The opcodes IRGenerator::accept(BinaryExpr&) has a generator for.
BinaryGenerators ==
  {"BAND", "BXOR",
   "NADD", "NSUB", "NMUL", "NDIV", "NREM", "NSHL", "NSHR", "NPOW", "NAND",
   "NOR", "NXOR", "NCMPEQ", "NCMPNE", "NCMPLE", "NCMPGE", "NCMPLT", "NCMPGT",
   "SADD", "SCMPEQ", "SCMPNE", "SCMPLE", "SCMPGE", "SCMPLT", "SCMPGT",
   "SCMPBEG", "SCMPEND", "SCONTAINS", "SREGMATCH",
   "PCMPEQ", "PCMPNE", "PINCIDR"}

\* IRGenerator::accept on an expression: a value, or the assertion about an
\* unsupported operation.
IRGenerator_accept(e) ==
  CASE e.kind = "UnaryExpr" ->
         IF e.op \in UnaryGenerators THEN "value" ELSE "assert"
    [] e.kind = "BinaryExpr" ->
         IF e.op = "BOR" THEN "value"
         ELSE IF e.op \in BinaryGenerators THEN "value" ELSE "assert"
    [] OTHER -> "value"

OpInit ==
  /\ opExpr = Parsed("none", "", NullPtr, <<>>)
  /\ generated = "none"

OpIdle == OpInit

ParseBinary ==
  /\ \E binop \in BinaryTokens, leftType \in LiteralTypes, rightType \in LiteralTypes :
       opExpr' = binaryRule(binop, leftType, rightType)
  /\ generated' = "none"

ParseUnary ==
  /\ \E tok \in UnaryTokens, subType \in LiteralTypes :
       opExpr' = unaryRule(tok, subType)
  /\ generated' = "none"

ParseCast ==
  /\ \E tok \in CastTokens, subType \in LiteralTypes :
       opExpr' = castExpr(tok, subType)
  /\ generated' = "none"

\* IR generation of the expression, when the parser reported nothing.
GenerateExpr ==
  /\ opExpr.ret # NullPtr
  /\ opExpr.report = <<>>
  /\ generated = "none"
  /\ generated' = IRGenerator_accept(Deref(opExpr.ret))
  /\ UNCHANGED opExpr

RestIdle == HandlerIdle /\ ThreadIdle /\ RunIdle /\ ReportIdle /\ OpIdle
FrontIdle == ParseIdle /\ CidrIdle /\ LexIdle /\ ResolveIdle /\ RestIdle

(***************************************************************************)
(*                           Specifications                                *)
(***************************************************************************)
\* ---- lang::Interpreter: compile and run calls of a host
Init == InterpInit /\ IRIdle /\ PoolIdle /\ PMIdle /\ GenIdle /\ FrontIdle

Next ==
  \/ /\ \E u \in Units, parseErr \in BOOLEAN, irErr \in BOOLEAN,
           linkErr \in BOOLEAN, level \in 0..1 :
          Compile(u, parseErr, irErr, linkErr, level)
     /\ UNCHANGED <<irVars, poolVars, pmVars, genVars, frontVars>>
  \/ /\ \E name \in HandlerNames, q \in Quotas : RunCall(name, q)
     /\ UNCHANGED <<irVars, poolVars, pmVars, genVars, frontVars>>
  \/ Dispatch /\ UNCHANGED <<irVars, poolVars, pmVars, genVars, frontVars>>
  \/ InitDone /\ UNCHANGED <<irVars, poolVars, pmVars, genVars, frontVars>>
  \/ HandlerDone /\ UNCHANGED <<irVars, poolVars, pmVars, genVars, frontVars>>

Spec == Init /\ [][Next]_vars

\* ---- flow::Instr: construction, mutation and destruction of instructions
InitIR == IRInit /\ InterpIdle /\ PoolIdle /\ PMIdle /\ GenIdle /\ FrontIdle

NextIR ==
  \/ /\ \E i \in Instrs, ops \in OperandLists(MaxOps) : Construct(i, ops)
     /\ UNCHANGED <<interpVars, poolVars, pmVars, genVars, frontVars>>
  \/ /\ \E i \in Instrs, v \in Instrs : CopyConstruct(i, v)
     /\ UNCHANGED <<interpVars, poolVars, pmVars, genVars, frontVars>>
  \/ /\ \E b \in InsertBlocks, i \in Instrs : PushBack(b, i)
     /\ UNCHANGED <<interpVars, poolVars, pmVars, genVars, frontVars>>
  \/ /\ \E i \in Instrs, value \in Values : AddOperand(i, value)
     /\ UNCHANGED <<interpVars, poolVars, pmVars, genVars, frontVars>>
  \/ /\ \E i \in Instrs, k \in 1..MaxOps, value \in Values : SetOperand(i, k, value)
     /\ UNCHANGED <<interpVars, poolVars, pmVars, genVars, frontVars>>
  \/ /\ \E i \in Instrs, old \in Values, replacement \in Values :
          ReplaceOperand(i, old, replacement)
     /\ UNCHANGED <<interpVars, poolVars, pmVars, genVars, frontVars>>
  \/ /\ \E i \in Instrs : ClearOperands(i)
     /\ UNCHANGED <<interpVars, poolVars, pmVars, genVars, frontVars>>
  \/ /\ \E i \in Instrs : Destroy(i)
     /\ UNCHANGED <<interpVars, poolVars, pmVars, genVars, frontVars>>

SpecIR == InitIR /\ [][NextIR]_vars

\* ---- flow::IRProgram: interning of literals
InitPool == PoolInit /\ InterpIdle /\ IRIdle /\ PMIdle /\ GenIdle /\ FrontIdle

NextPool ==
  /\ \E kind \in PoolKinds : \E literal \in Literals(kind) : Get(kind, literal)
  /\ UNCHANGED <<interpVars, irVars, pmVars, genVars, frontVars>>

SpecPool == InitPool /\ [][NextPool]_vars

\* ---- flow::PassManager: registration and runs over one handler
InitPM == PMInit /\ InterpIdle /\ IRIdle /\ PoolIdle /\ GenIdle /\ FrontIdle

NextPM ==
  \/ /\ \E name \in PassNames : RegisterPass(name)
     /\ UNCHANGED <<interpVars, irVars, poolVars, genVars, frontVars>>
  \/ RunBegin /\ UNCHANGED <<interpVars, irVars, poolVars, genVars, frontVars>>
  \/ /\ \E changed \in BOOLEAN : ExecPass(changed)
     /\ UNCHANGED <<interpVars, irVars, poolVars, genVars, frontVars>>
  \/ RoundEnd /\ UNCHANGED <<interpVars, irVars, poolVars, genVars, frontVars>>
  \/ RunReturn /\ UNCHANGED <<interpVars, irVars, poolVars, genVars, frontVars>>

SpecPM == InitPM /\ [][NextPM]_vars

\* ---- lang::IRGenerator: the walk over the unit-scope symbols of a unit
InitGen == GenInit /\ InterpIdle /\ IRIdle /\ PoolIdle /\ PMIdle /\ FrontIdle

NextGen ==
  \/ GenGlobal /\ UNCHANGED <<interpVars, irVars, poolVars, pmVars, frontVars>>
  \/ GenHandler /\ UNCHANGED <<interpVars, irVars, poolVars, pmVars, frontVars>>
  \/ GenFinalize /\ UNCHANGED <<interpVars, irVars, poolVars, pmVars, frontVars>>

SpecGen == InitGen /\ [][NextGen]_vars


\* ---- lang::Parser: the declaration loop of Parser::unit over one source
BackIdle == InterpIdle /\ IRIdle /\ PoolIdle /\ PMIdle /\ GenIdle
backVars == <<interpVars, irVars, poolVars, pmVars, genVars>>

InitParse == ParseInit /\ BackIdle /\ CidrIdle /\ LexIdle /\ ResolveIdle /\ RestIdle

NextParse == ParseDecl /\ UNCHANGED <<backVars, cidrVars, lexVars, resolveVars, restVars>>

SpecParse == InitParse /\ [][NextParse]_vars

\* ---- util::Cidr: one call of Cidr::contains
InitCidr == CidrInit /\ BackIdle /\ ParseIdle /\ LexIdle /\ ResolveIdle /\ RestIdle

NextCidr == Contains /\ UNCHANGED <<backVars, parseVars, lexVars, resolveVars, restVars>>

SpecCidr == InitCidr /\ [][NextCidr]_vars

\* ---- lang::Lexer: the tokens of one stream
InitLex == LexInit /\ BackIdle /\ ParseIdle /\ CidrIdle /\ ResolveIdle /\ RestIdle

NextLex == NextToken /\ UNCHANGED <<backVars, parseVars, cidrVars, resolveVars, restVars>>

SpecLex == InitLex /\ [][NextLex]_vars

\* ---- Parser::resolve: one call over the overloads of a name
InitResolve == ResolveInit /\ BackIdle /\ ParseIdle /\ CidrIdle /\ LexIdle /\ RestIdle

NextResolve == Resolve /\ UNCHANGED <<backVars, parseVars, cidrVars, lexVars, restVars>>

SpecResolve == InitResolve /\ [][NextResolve]_vars


\* ---- vm::Handler: calls of setCode on one handler
PlainIdle == BackIdle /\ ParseIdle /\ CidrIdle /\ LexIdle /\ ResolveIdle
plainVars == <<backVars, parseVars, cidrVars, lexVars, resolveVars>>

InitHandler == HandlerInit /\ PlainIdle /\ ThreadIdle /\ RunIdle /\ ReportIdle /\ OpIdle
NextHandler == SetCode /\ UNCHANGED <<plainVars, threadVars, runVars, reportVars, opVars>>
SpecHandler == InitHandler /\ [][NextHandler]_vars

\* ---- Runners of two threads on the same handler of one linked program
InitThreads == ThreadInit /\ PlainIdle /\ HandlerIdle /\ RunIdle /\ ReportIdle /\ OpIdle
NextThreads ==
  \/ \E r \in RunnerIds : RunnerStart(r) /\ UNCHANGED <<plainVars, handlerVars, runVars, reportVars, opVars>>
  \/ \E r \in RunnerIds : Thread(r) /\ UNCHANGED <<plainVars, handlerVars, runVars, reportVars, opVars>>
  \/ \E r \in RunnerIds : RunnerDispatch(r) /\ UNCHANGED <<plainVars, handlerVars, runVars, reportVars, opVars>>
SpecThreads == InitThreads /\ [][NextThreads]_vars

\* ---- lang::Interpreter: compile and run calls, each to its return
InitRuns == RunInit /\ PlainIdle /\ HandlerIdle /\ ThreadIdle /\ ReportIdle /\ OpIdle
NextRuns ==
  \/ CompileProgram /\ UNCHANGED <<plainVars, handlerVars, threadVars, reportVars, opVars>>
  \/ RunHandler /\ UNCHANGED <<plainVars, handlerVars, threadVars, reportVars, opVars>>
SpecRuns == InitRuns /\ [][NextRuns]_vars

\* ---- fltest: the two reports are filled, then testFile compares them
InitReport == ReportInit /\ PlainIdle /\ HandlerIdle /\ ThreadIdle /\ RunIdle /\ OpIdle
NextReport ==
  \/ PushActual /\ UNCHANGED <<plainVars, handlerVars, threadVars, runVars, opVars>>
  \/ PushExpected /\ UNCHANGED <<plainVars, handlerVars, threadVars, runVars, opVars>>
  \/ TestFile /\ UNCHANGED <<plainVars, handlerVars, threadVars, runVars, opVars>>
SpecReport == InitReport /\ [][NextReport]_vars

\* ---- operator expressions: parsed, then handed to the IR generator
InitOps == OpInit /\ PlainIdle /\ HandlerIdle /\ ThreadIdle /\ RunIdle /\ ReportIdle
NextOps ==
  \/ ParseBinary /\ UNCHANGED <<plainVars, handlerVars, threadVars, runVars, reportVars>>
  \/ ParseUnary /\ UNCHANGED <<plainVars, handlerVars, threadVars, runVars, reportVars>>
  \/ ParseCast /\ UNCHANGED <<plainVars, handlerVars, threadVars, runVars, reportVars>>
  \/ GenerateExpr /\ UNCHANGED <<plainVars, handlerVars, threadVars, runVars, reportVars>>
SpecOps == InitOps /\ [][NextOps]_vars

(***************************************************************************)
(*                              Properties                                 *)
(***************************************************************************)
\* ---- lang::Interpreter and vm::Runner (Spec)

\* C1: a Runner started with a finite quota q > 0 dispatches at most q
\* instructions, and a run that uses its quota up ends in the quota-exceeded
\* state with the result false; the Runner of the requested handler is
\* started with the quota of the run call, and run returns its result.
C1_RunnerWithinQuota ==
  /\ (pc = "handler" /\ call.quota # NoQuota) => runner.quota0 = call.quota
  /\ runner.quota0 # NoQuota =>
       /\ runner.count <= runner.quota0
       /\ runner.count = runner.quota0 =>
            (runner.state = "QuotaExceeded" /\ runner.result = FALSE)
       /\ (runner.state = "QuotaExceeded" /\ pc = "idle") => retval = Ptr(FALSE)

C1_Witness ==
  /\ pc = "idle"
  /\ call.quota = MaxQuota
  /\ runner.name = "main"
  /\ runner.state = "QuotaExceeded"
  /\ runner.count = MaxQuota
  /\ retval = Ptr(FALSE)

\* C2: after a successful compile the global-scope initialiser is executed
\* exactly once: during the first run call, before the requested handler is
\* started (whether or not that handler exists), and by no later run call.
C2_GlobalInitOnce ==
  program_ # NullPtr =>
    LET hasInit == GLOBAL_SCOPE_INIT_NAME \in DOMAIN Deref(program_) IN
    /\ initExec <= 1
    /\ runCalls = 0 => initExec = 0
    /\ (hasInit /\ runCalls >= 1) => initExec = 1
    /\ ~hasInit => initExec = 0
    /\ pc = "init" => (runCalls = 1 /\ runner.name = GLOBAL_SCOPE_INIT_NAME)
    /\ pc = "handler" => runner.name = call.name

C2_Witness ==
  /\ program_ # NullPtr
  /\ GLOBAL_SCOPE_INIT_NAME \in DOMAIN Deref(program_)
  /\ runCalls = 2
  /\ initExec = 1
  /\ pc = "handler"

\* The stage that pushed a message of the report.
StageOf(message) ==
  CASE message = "SyntaxError" -> "parse"
    [] message = "TypeError" -> "irgen"
    [] message = "LinkError" -> "link"

\* C3: once a stage of compile has pushed an error onto the report, no later
\* stage is executed and compile returns false.
C3_NoStageAfterError ==
  \A k \in 1..Len(lastCompile.report) :
    /\ lastCompile.stages[Len(lastCompile.stages)] = StageOf(lastCompile.report[k])
    /\ ~lastCompile.ret

\* C10: a run call with a finite quota q dispatches at most q instructions
\* in total, those of the global-scope initialiser included.
C10_RunWithinQuota ==
  call.quota # NoQuota => dispatched <= call.quota

\* ---- flow::Instr (SpecIR)

C7_ConstantsInterned ==
  /\ \A kind \in PoolKinds : \A i, j \in 1..Len(tables[kind]) :
       LiteralEq(kind, tables[kind][i], tables[kind][j]) => i = j
  /\ lastGet.n > 0 =>
       LET literal == lastGet.literal[1]
           table == tables[lastGet.kind]
       IN /\ lastGet.ret \in 1..Len(table)
          /\ LiteralEq(lastGet.kind, table[lastGet.ret], literal)
          /\ (\E i \in 1..Len(lastGet.before) :
                LiteralEq(lastGet.kind, lastGet.before[i], literal))
               => (table = lastGet.before /\ lastGet.ret <= Len(lastGet.before))

C7_Witness ==
  /\ lastGet.n > 0
  /\ Len(lastGet.before) >= 2
  /\ lastGet.ret = 1
  /\ tables[lastGet.kind] = lastGet.before

\* ---- flow::PassManager (SpecPM)
\* Whether round r of the running pass manager, all of whose passes have
\* been executed, reported no change.
ChangeFreeRound(r) ==
  LET n == Len(handlerPasses_) IN
  \A k \in ((r - 1) * n + 1)..(r * n) : ~pmLog[k].changed

\* C8: run executes the registered passes in registration order, round after
\* round; nothing is executed after a round without a change, and run
\* returns exactly at the end of the first such round.
C8_RoundsUntilNoChange ==
  LET n == Len(handlerPasses_) IN
  pmpc \in {"round", "done"} =>
    /\ \A k \in 1..Len(pmLog) :
         /\ pmLog[k].idx = ((k - 1) % n) + 1
         /\ pmLog[k].name = handlerPasses_[pmLog[k].idx]
    /\ n > 0 => \A r \in 1..(Len(pmLog) \div n) :
                  ChangeFreeRound(r) => Len(pmLog) = r * n
    /\ n = 0 => pmLog = <<>>
    /\ (pmpc = "done" /\ n > 0) =>
         /\ Len(pmLog) >= n
         /\ Len(pmLog) % n = 0
         /\ ChangeFreeRound(Len(pmLog) \div n)

C8_Witness ==
  /\ pmpc = "done"
  /\ Len(handlerPasses_) = MaxPasses
  /\ Len(pmLog) >= 2 * MaxPasses
  /\ pmLog[MaxPasses].changed

\* ---- lang::IRGenerator (SpecGen)

\* C4: in every handler the generator has produced, every block reachable
\* from the entry block holds exactly one terminator, as its last
\* instruction.
C4_OneTerminatorPerBlock ==
  GenDone =>
    \A h \in DOMAIN irHandlers :
      \A b \in ReachableBlocks(irHandlers[h]) :
        EndsWithOneTerminator(irHandlers[h][b])

\* C9: generating a handler whose calls lead back to a handler under
\* expansion reports a TypeError and terminates, expands no handler that is
\* on the handler stack, and leaves the handler stack empty.
C9_RecursionRejected ==
  \A k \in 1..Len(genLog) :
    /\ genLog[k].stack = <<>>
    /\ ~genLog[k].reentered
    /\ ReachesCycle(genLog[k].name) => genLog[k].recErrors >= 1

C9_Witness ==
  /\ GenDone
  /\ "h2" \in DirectCalls("h1")
  /\ "h1" \in DirectCalls("h2")
  /\ \E k \in 1..Len(genLog) : genLog[k].name = "h1" /\ genLog[k].recErrors >= 1


\* ---- lang::Parser
Count(report, type) == Cardinality({k \in 1..Len(report) : report[k] = type})
StmtWords == {"var", "x", "=", "1", "handler", "main", "aux", "{", "}", "accept", ";"}
\* The statements of the source are well-formed calls and empty statements,
\* except for the statements `then ;`, each a syntax error of its own.
OnlyBadStmts == \A k \in 1..Len(source) : source[k] \in StmtWords \cup {"then"}
BadStmtCount == Cardinality({k \in 1..Len(source) : source[k] = "then"})

\* C11: after a syntax error inside a statement the parser skips to the next
\* `;` and resumes, so a parse of a source with two independent syntax
\* errors ends with a diagnostic for each of them.
C11_EachSyntaxErrorReported ==
  (ppc = "done" /\ OnlyBadStmts /\ BadStmtCount >= 2 /\ "GlobalScope" \in features_)
    => Count(parser.report, "SyntaxError") >= 2

\* The source has a `while true { }` statement and is otherwise well-formed.
OnlyWhileStmts ==
  /\ \A k \in 1..Len(source) : source[k] \in StmtWords \cup {"while", "true"}
  /\ \E k \in 1..Len(source) : source[k] = "while"
  /\ "GlobalScope" \in features_
HasNode(kind) == \E k \in 1..Len(parser.nodes) : parser.nodes[k].kind = kind

\* C12: with Feature::WhileLoop enabled a `while` statement parses into a
\* WhileStmt without diagnostics; with the feature disabled the parse of it
\* reports a SyntaxError.
C12_WhileLoopFeature ==
  (ppc = "done" /\ OnlyWhileStmts)
    => IF "WhileLoop" \in features_
         THEN parser.report = <<>> /\ HasNode("WhileStmt")
         ELSE Count(parser.report, "SyntaxError") >= 1

\* C13: every CondStmt the parser builds (prefix `if`, postscript `if`,
\* postscript `unless`) has a condition of type Boolean.
C13_CondStmtBoolean ==
  \A k \in 1..Len(parser.nodes) :
    parser.nodes[k].kind = "CondStmt" => Deref(parser.nodes[k].cond).type = "Boolean"

\* ---- util::Cidr
\* The first `prefix` bits of the two addresses are the same.
RECURSIVE AllBits(_)
AllBits(data) == IF data = <<>> THEN <<>> ELSE Bits8(Head(data)) \o AllBits(Tail(data))
SamePrefix(c, ip) ==
  /\ ip.family = c.family
  /\ SubSeq(AllBits(ip.data), 1, c.prefix) = SubSeq(AllBits(c.data), 1, c.prefix)

\* C14: Cidr::contains returns true exactly when the address is of the
\* CIDR's family and its first `prefix` bits equal those of the CIDR's
\* address, for every prefix from 0 to the width of the address.
C14_ContainsIsPrefixMatch ==
  contained # "none" => (contained = "true" <=> SamePrefix(cidr, ipaddr))

\* ---- lang::Lexer
\* The body a string literal was written for.
BodyValue(pieces) == [k \in 1..Len(pieces) |-> PieceValue(pieces[k])]

\* C15: a quoted string literal ends at its first unescaped delimiter: for
\* a body of ordinary characters, `#` not before `{` and the escapes, also
\* one that ends with an escaped backslash or with `#`, the lexer returns
\* one String token with the unescaped body, and the next token starts
\* right after the closing quote.
C15_StringEndsAtDelimiter ==
  (lexCase.kind = "string" /\ lpc = "eof")
    => /\ Len(tokens) >= 2
       /\ tokens[1].token = "String"
       /\ tokens[1].stringValue = BodyValue(lexCase.pieces)
       /\ tokens[2].token = "Semicolon"
       /\ tokens[2].begin = Len(input)

\* C16: whenever Lexer::nextToken returns Token::Unknown, a TokenError has
\* been pushed to the report during that call.
C16_UnknownHasTokenError ==
  \A k \in 1..Len(tokens) : tokens[k].token = "Unknown" => tokens[k].errors >= 1

\* Decimal numerals, compared digit by digit.
RECURSIVE StripZeros(_)
StripZeros(ds) == IF Len(ds) > 1 /\ Head(ds) = "0" THEN StripZeros(Tail(ds)) ELSE ds
RECURSIVE LexLeq(_, _)
LexLeq(a, b) ==
  \/ a = <<>>
  \/ DigitValue(Head(a)) < DigitValue(Head(b))
  \/ Head(a) = Head(b) /\ LexLeq(Tail(a), Tail(b))
DecimalLeq(a, b) ==
  LET x == StripZeros(a)
      y == StripZeros(b)
  IN Len(x) < Len(y) \/ (Len(x) = Len(y) /\ LexLeq(x, y))
PrefixRange(family) == IF family = "V4" THEN <<"3", "2">> ELSE <<"1", "2", "8">>

\* C17: an IP literal followed by `/` and a decimal prefix of any number of
\* digits lexes to a Cidr token when the prefix is within the width of the
\* address, and to Unknown with a TokenError for every larger prefix.
C17_PrefixRangeChecked ==
  (lexCase.kind = "cidr" /\ Len(tokens) >= 1)
    => IF DecimalLeq(lexCase.digits, PrefixRange(lexCase.family))
         THEN tokens[1].token = "Cidr"
         ELSE tokens[1].token = "Unknown" /\ tokens[1].errors >= 1

\* The decimal numeral of a non-negative FlowNumber.
DivMod10(x) ==
  LET c4 == x[4]
      c3 == (c4 % 10) * Limb + x[3]
      c2 == (c3 % 10) * Limb + x[2]
      c1 == (c2 % 10) * Limb + x[1]
  IN [quotient |-> <<c1 \div 10, c2 \div 10, c3 \div 10, c4 \div 10>>, remainder |-> c1 % 10]
DigitChar(d) == CHOOSE ch \in DigitChars : DigitValue(ch) = d
RECURSIVE Decimal(_)
Decimal(x) ==
  IF DivMod10(x).quotient = Zero64 THEN <<DigitChar(DivMod10(x).remainder)>>
  ELSE Append(Decimal(DivMod10(x).quotient), DigitChar(DivMod10(x).remainder))
MaxFlowNumber ==
  <<"9","2","2","3","3","7","2","0","3","6","8","5","4","7","7","5","8","0","7">>

\* C18: a decimal literal up to 9223372036854775807 lexes to a Number token
\* with exactly that value; a literal that needs more than 63 bits gives a
\* TokenError and never a Number.
C18_NumberValueExact ==
  (lexCase.kind = "number" /\ Len(tokens) >= 1)
    => IF DecimalLeq(lexCase.digits, MaxFlowNumber)
         THEN /\ tokens[1].token = "Number"
              /\ ~IsNegative(tokens[1].numberValue)
              /\ Decimal(tokens[1].numberValue) = lexCase.digits
         ELSE tokens[1].token # "Number" /\ tokens[1].errors >= 1

\* ---- Parser::resolve
HasDiagnostic(type, text) ==
  \E k \in 1..Len(resolved.report) :
    resolved.report[k].type = type /\ resolved.report[k].text = text
Exact == Indices(callables, IsDirect)
Tolerant == Indices(callables, IsTolerant)

\* C19: an exact match is preferred over a tolerant one; without an exact
\* match, no tolerant match gives the TypeError `No matching signature` and
\* null, more than one gives `Call to builtin is ambiguous` and null, and
\* exactly one gives the call to it.
C19_ResolveOrder ==
  resolved.called =>
    IF Exact # {}
      THEN resolved.ret = Ptr(First(Exact)) /\ Count([k \in 1..Len(resolved.report) |-> resolved.report[k].type], "TypeError") = 0
    ELSE IF Tolerant = {}
      THEN resolved.ret = NullPtr /\ HasDiagnostic("TypeError", "No matching signature")
    ELSE IF Cardinality(Tolerant) > 1
      THEN resolved.ret = NullPtr /\ HasDiagnostic("TypeError", "Call to builtin is ambiguous")
    ELSE resolved.ret = Ptr(First(Tolerant)) /\ ~HasDiagnostic("TypeError", "No matching signature")
           /\ ~HasDiagnostic("TypeError", "Call to builtin is ambiguous")

\* An exact match among several tolerant candidates, not the first of them,
\* has been resolved.
C19_Witness ==
  /\ resolved.called
  /\ Exact # {}
  /\ Cardinality(Tolerant) > 1
  /\ First(Exact) # First(Tolerant)
  /\ resolved.ret = Ptr(First(Exact))

\* C20: every call that resolves to an experimental builtin produces a
\* Warning, whichever step of the resolution selected the builtin.
C20_ExperimentalWarned ==
  (resolved.called /\ resolved.ret # NullPtr /\ callables[Deref(resolved.ret)].experimental)
    => HasDiagnostic("Warning", "Using experimental builtin API")

\* ---- lang::Parser: symbols
\* The handler symbols of the unit scope with the given name.
HandlersNamed(name) ==
  {j \in 1..Len(unitSyms) : unitSyms[j].kind = "HandlerSym" /\ unitSyms[j].name = name}
Implemented(name) == \E j \in HandlersNamed(name) : unitSyms[j].body # NullPtr

\* C21: when a handler is called by a bare statement before it is defined,
\* after the parse the global scope holds exactly one HandlerSym of that
\* name, with the body of the definition, and every such call site refers to
\* that symbol.
C21_ForwardHandlerUnique ==
  ppc = "done" =>
    \A k \in 1..Len(parser.calls) :
      (parser.calls[k].forward /\ Implemented(parser.calls[k].name)) =>
        /\ Cardinality(HandlersNamed(parser.calls[k].name)) = 1
        /\ \A j \in HandlersNamed(parser.calls[k].name) :
             unitSyms[j].id = parser.calls[k].callee

\* The declarations `handler NAME {` of the source, by the position of the
\* keyword, and the end of the body that starts there.
BraceHandlers ==
  {k \in 1..(Len(source) - 2) : source[k] = "handler" /\ LexWord(source[k + 1]) = "Ident"
                                /\ source[k + 2] = "{"}
RECURSIVE BodyEnd(_, _)
BodyEnd(j, depth) ==
  IF j > Len(source) THEN j
  ELSE IF source[j] = "{" THEN BodyEnd(j + 1, depth + 1)
  ELSE IF source[j] = "}" THEN IF depth = 1 THEN j ELSE BodyEnd(j + 1, depth - 1)
  ELSE BodyEnd(j + 1, depth)
\* The names of the variables declared in the body of the handler at k.
BodyVars(k) == {source[j + 1] : j \in {i \in (k + 3)..BodyEnd(k + 2, 0) : source[i] = "var"}}
Names(table) == {table[j].name : j \in 1..Len(table)}
ForwardDeclared(name) ==
  \E k \in 1..(Len(source) - 2) :
    source[k] = "handler" /\ source[k + 1] = name /\ source[k + 2] = ";"
\* The whole source was parsed into the unit without a diagnostic.
ParsedAll == ppc = "done" /\ parser.report = <<>> /\ token(parser) = "Eof"
\* UnitSym::findHandler: the first handler symbol of the name.
findHandlerSym(name) == unitSyms[CHOOSE j \in HandlersNamed(name) :
                                   \A i \in HandlersNamed(name) : j <= i]

\* C26: after the parse of `handler NAME { var X = e; ... }` the unit has a
\* handler NAME whose body is a CompoundStmt; every variable declared in the
\* body is a symbol of the handler's own table, not of the global scope and
\* not a statement of the body; the body `{}` is an empty CompoundStmt.
C26_HandlerOwnsItsVariables ==
  ParsedAll =>
    \A k \in BraceHandlers :
      ~ForwardDeclared(source[k + 1]) =>
        /\ HandlersNamed(source[k + 1]) # {}
        /\ findHandlerSym(source[k + 1]).body # NullPtr
        /\ Deref(findHandlerSym(source[k + 1]).body).kind = "CompoundStmt"
        /\ BodyVars(k) = Names(findHandlerSym(source[k + 1]).scope)
        /\ \A j \in 1..Len(unitSyms) :
             unitSyms[j].kind = "VariableSym" => unitSyms[j].name \notin BodyVars(k)
        /\ \A i \in 1..Len(Deref(findHandlerSym(source[k + 1]).body).statements) :
             Deref(findHandlerSym(source[k + 1]).body).statements[i] # "VariableSym"
        /\ BodyEnd(k + 2, 0) = k + 3 =>
             Deref(findHandlerSym(source[k + 1]).body).statements = <<>>
\* A handler with two variables, one of them declared in a nested block,
\* has been parsed.
C26_Witness ==
  /\ ParsedAll
  /\ \E k \in BraceHandlers : BodyVars(k) = {"i", "j"} /\ ~ForwardDeclared(source[k + 1])
  /\ \E j \in 1..Len(unitSyms) : Names(unitSyms[j].scope) = {"i", "j"}

\* C27: when the parse has returned the unit and nothing was reported, the
\* lexer is at Eof: no token after the last accepted declaration is left
\* unread.
C27_WholeInputConsumed ==
  (ppc = "done" /\ parser.report = <<>> /\ ~parser.broken) => token(parser) = "Eof"

\* ---- vm::Handler
\* C22: after setCode the last instruction of the handler's code is EXIT:
\* code that ends with EXIT is stored as it is, any other code gets exactly
\* one EXIT appended.
C22_CodeEndsWithExit ==
  hpc # "new" =>
    /\ hpc = "set"
    /\ code_ # <<>>
    /\ opcode(code_[Len(code_)]) = "EXIT"
    /\ IF hinput # <<>> /\ opcode(hinput[Len(hinput)]) = "EXIT"
         THEN code_ = hinput
         ELSE /\ Len(code_) = Len(hinput) + 1
              /\ SubSeq(code_, 1, Len(hinput)) = hinput

\* ---- Runners sharing a Handler
\* C23: after link, executing a handler writes neither to its bytecode nor
\* to its direct-threaded code table, the first execution included.
C23_HandlerReadOnlyAfterLink == [][shared' = shared]_vars

\* ---- lang::Interpreter: run calls
\* C24: two runs of the same handler of the same compiled program with the
\* same quota and the same initial state of the global variables return the
\* same result and make the same native calls in the same order.
C24_RunsDeterministic ==
  \A i \in 1..Len(runLog), j \in 1..Len(runLog) :
    ( /\ runLog[i].program = runLog[j].program
      /\ runLog[i].handler = runLog[j].handler
      /\ runLog[i].quota = runLog[j].quota
      /\ runLog[i].globals = runLog[j].globals )
    => /\ runLog[i].result = runLog[j].result
       /\ runLog[i].trace = runLog[j].trace

\* ---- lang::Interpreter: the passes of a compile call
\* The standard suite, by the names the passes are registered under; the
\* last one stands for transform::mergeSameBlocks.
StandardSuite ==
  {"eliminate-empty-blocks", "eliminate-linear-br", "eliminate-unused-blocks",
   "eliminate-unused-instr", "fold-constant-condbr", "rewrite-br-to-exit",
   "rewrite-cond-br-to-same-branches", "merge-same-blocks"}
PassesOf(c) == { c.passes[k] : k \in 1..Len(c.passes) }
StagesOf(c) == { c.stages[k] : k \in 1..Len(c.stages) }

\* C25: a compile call that gets past the parser runs no pass at
\* optimization level 0 (no optimize stage), and at any level >= 1 it runs
\* every pass of the standard suite, same-block merging included.
C25_LevelSelectsSuite ==
  "irgen" \in StagesOf(lastCompile) =>
    IF "optimize" \in StagesOf(lastCompile)
      THEN StandardSuite \subseteq PassesOf(lastCompile)
      ELSE PassesOf(lastCompile) = {}

\* A compile call that returns false.
FailedCompile ==
  /\ \E u \in Units, parseErr \in BOOLEAN, irErr \in BOOLEAN,
        linkErr \in BOOLEAN, level \in 0..1 :
       Compile(u, parseErr, irErr, linkErr, level)
  /\ retval' = Ptr(FALSE)

\* C29: a compile call that returns false leaves programIR(), program() and
\* the pending-initialisation flag as they were, so that a following run
\* uses the program of the last successful compile.
C29_FailedCompileKeepsState ==
  [][FailedCompile => /\ programIR_' = programIR_
                      /\ program_' = program_
                      /\ initialized_' = initialized_]_vars

\* ---- diagnostics::BufferedReport (SpecReport)
\* C30: the difference of two reports is empty in both directions exactly
\* when the reports are equal, so that testFile, when it returns false for
\* differing diagnostics, has reported a Missing or a Superfluous message.
C30_DifferenceEmptyIffEqual ==
  (tested # NullPtr /\ Deref(tested).parsed) =>
    /\ Deref(tested).ret <=> (difference(actual, expected) = [first |-> <<>>, second |-> <<>>])
    /\ ~Deref(tested).ret => Deref(tested).errors # <<>>

\* ---- operators (SpecOps)
\* C28: for every unary, cast or binary expression the parser accepts
\* without a diagnostic, the IR generator has a generator for the opcode the
\* parser selected: generation yields a value and never reaches the
\* assertion about an unsupported operation.
C28_AcceptedOperatorsGenerated ==
  (opExpr.report = <<>> /\ generated # "none") => generated = "value"

=============================================================================
